---- MODULE Spec2Model ----
(***************************************************************************)
(* MarketSage multi-agent task delegation core.                            *)
(*                                                                         *)
(*   HostAgent                (app/agent/host/multiagent/host_agent.py)    *)
(*   RemoteAgentConnections   (.../multiagent/remote_agent_connection.py)  *)
(*   handle_task_updates      (app/api/routes/host_agent_router.py)        *)
(*   NotificationService      (app/api/services/notification_service.py)   *)
(*                                                                         *)
(* Python dicts whose iteration order the code uses (the agent directory)  *)
(* are insertion-ordered association lists; the other dicts are records    *)
(* with a set of present keys (session state) or total functions with a    *)
(* value that stands for "key not in dict" (metadata).  uuid.uuid4() is a  *)
(* counter: every call returns a value never returned before.  Strings     *)
(* that the code concatenates or searches are sequences of tokens.         *)
(***************************************************************************)
EXTENDS Integers, Sequences, FiniteSets, TLC

VARIABLES
    remote_agent_connections, \* HostAgent.remote_agent_connections: name -> connection (its card)
    cards,                    \* HostAgent.cards: name -> AgentCard
    agents,                   \* HostAgent.agents: the rendered lines of list_remote_agents()
    regLog,                   \* history: the cards registered so far, in order
    task_callback,            \* HostAgent.task_callback: which callable was injected
    state,                    \* tool_context.state / callback_context.state, per session
    calls,                    \* the send_task invocations in flight, one frame per call slot
    last,                     \* history: the frame of the invocation that has just ended
    finished,                 \* history: per session, how its last ended invocation went
    started,                  \* number of send_task invocations so far
    uuid,                     \* number of uuid.uuid4() values handed out
    thought_process_history,  \* router global: task id -> accumulated thought text
    current_agent_info,       \* router global: task id -> agent info
    task_notification_urls,   \* NotificationService.task_notification_urls
    cache_data,               \* InMemoryCache._cache_data: key -> value
    cache_ttl,                \* InMemoryCache._ttl: key -> the time its value expires
    clock,                    \* what time.time() returns
    cache_written,            \* history: per key, its last set since it was deleted or cleared
    cache_last                \* history: the last cache operation and what it returned

vars == <<remote_agent_connections, cards, agents, regLog, task_callback, state,
          calls, last, finished, started, uuid, thought_process_history,
          current_agent_info, task_notification_urls,
          cache_data, cache_ttl, clock, cache_written, cache_last>>

(***************************************************************************)
(* Bounds                                                                  *)
(***************************************************************************)
MaxCalls == 2      \* send_task invocations in one behaviour
MaxStream == 2     \* updates the remote agent may put on one stream
MaxRegs == 3       \* cards registered in one behaviour, the constructor's included
MaxResults == 3    \* results one connection processes in one behaviour
MaxTasks == 3      \* task ids a subscriber registers for by other means
MaxTime == 3       \* seconds the clock advances in one behaviour
MaxTtl == 1        \* the longest ttl a set is called with

Sessions == {"s1", "s2"}
CallIds == {1, 2}   \* call slots: at most two invocations are in flight at a time

(***************************************************************************)
(* Python dict as an insertion-ordered association list of <<key, value>>  *)
(***************************************************************************)
DictKeys(d) == {d[i][1] : i \in 1..Len(d)}

DictHas(d, k) == \E i \in 1..Len(d) : d[i][1] = k

DictGet(d, k) == d[CHOOSE i \in 1..Len(d) : d[i][1] = k][2]

DictPut_AlwaysAppends(d, k, v) == Append(d, <<k, v>>)

\* d[k] = v : replaces the value in place when k is a key, appends otherwise
DictPut(d, k, v) ==
    IF DictHas(d, k)
    THEN [i \in 1..Len(d) |-> IF d[i][1] = k THEN <<k, v>> ELSE d[i]]
    ELSE Append(d, <<k, v>>)

(***************************************************************************)
(* Agent cards.  description is a version tag, so that two cards of one    *)
(* name can be told apart.                                                 *)
(***************************************************************************)
AgentNames == {"planner-agent", "db-agent"}
UnknownAgent == "ghost-agent"

Card(n, d, st) == [name |-> n, description |-> d, streaming |-> st]

Cards == {Card("planner-agent", "v1", FALSE), Card("planner-agent", "v2", TRUE),
          Card("db-agent", "v1", TRUE)}

\* the card lists A2ACardResolver may resolve the configured addresses to
AddressLists == {<<>>,
                 <<Card("planner-agent", "v1", FALSE)>>,
                 <<Card("planner-agent", "v1", FALSE), Card("db-agent", "v1", TRUE)>>,
                 <<Card("planner-agent", "v2", TRUE), Card("planner-agent", "v1", FALSE)>>}

\* HostAgent.list_remote_agents
list_remote_agents(conns, cds) ==
    IF Len(conns) = 0 THEN <<>>
    ELSE [i \in 1..Len(cds) |-> [name |-> cds[i][2].name,
                                 description |-> cds[i][2].description]]

\* the body shared by the constructor's loop and register_agent_card:
\* both maps are written under card.name
RegisterCard(dir, card) ==
    [conns |-> DictPut(dir.conns, card.name, card),
     cards |-> DictPut(dir.cards, card.name, card)]

RECURSIVE RegisterAll(_, _)
RegisterAll(dir, cs) ==
    IF cs = <<>> THEN dir ELSE RegisterAll(RegisterCard(dir, Head(cs)), Tail(cs))

EmptyDir == [conns |-> <<>>, cards |-> <<>>]

(***************************************************************************)
(* Identifiers.  uuid.uuid4() values are 1, 2, ...; identifiers that come  *)
(* from outside (the ADK session, the remote agent) are negative; 0 stands *)
(* for "no value".                                                         *)
(***************************************************************************)
NoValue == 0
PresetTaskId == -1        \* a task_id the session state may already hold
PresetMessageId == -2     \* a message_id carried in input_message_metadata
RemoteMessageId == -3     \* a message_id the remote agent put on its message
RemoteValue == -4         \* any other metadata value set by the remote agent
UserValue == -5           \* a metadata value carried over from the user turn

(***************************************************************************)
(* Metadata dicts: total functions on MetaKeys, NoValue = key not in dict. *)
(* None and {} are not told apart: the code tests both with "not m".       *)
(***************************************************************************)
MetaKeys == {"conversation_id", "message_id", "last_message_id", "user_id"}

EmptyMeta == [k \in MetaKeys |-> NoValue]

MetaHas(m, k) == m[k] # NoValue

MetaDom(m) == {k \in MetaKeys : MetaHas(m, k)}

Truthy(m) == MetaDom(m) # {}

\* dict.update(other): the keys of other are written over those of m
MetaUpdate(m, other) == [k \in MetaKeys |-> IF MetaHas(other, k) THEN other[k] ELSE m[k]]

MetaSet(m, k, v) == [m EXCEPT ![k] = v]

(***************************************************************************)
(* Parts, messages, tasks and task updates                                 *)
(***************************************************************************)
TaskState == {"SUBMITTED", "WORKING", "INPUT_REQUIRED", "COMPLETED",
              "CANCELED", "FAILED", "UNKNOWN"}

\* file is part.file.name, bytes is part.file.bytes (base64 text)
TextPart(t) == [type |-> "text", text |-> t, data |-> NoValue, file |-> "", bytes |-> ""]
DataPart(d) == [type |-> "data", text |-> <<>>, data |-> d, file |-> "", bytes |-> ""]
FilePart(n, b) == [type |-> "file", text |-> <<>>, data |-> NoValue, file |-> n, bytes |-> b]
OtherPart == [type |-> "video", text |-> <<>>, data |-> NoValue, file |-> "", bytes |-> ""]

\* status.message: present = FALSE is None
NoMessage == [present |-> FALSE, parts |-> <<>>, metadata |-> EmptyMeta]
Message(ps, md) == [present |-> TRUE, parts |-> ps, metadata |-> md]

\* One shape for Task, TaskStatusUpdateEvent and TaskArtifactUpdateEvent, and
\* for the two values that are no update at all (None, a coroutine object).
\* A Task has id, sessionId, status, artifacts and metadata; a
\* TaskStatusUpdateEvent has id, status, final and metadata; a
\* TaskArtifactUpdateEvent has id, artifact and metadata.  The record holds
\* NoValue, FALSE or <<>> in the place of an attribute the kind does not have:
\* hasattr and getattr with a default see it as absent, a plain read of it
\* raises AttributeError (HasAttr below).
Update(k, i, sid, hs, st, msg, arts, fin, md) ==
    [kind |-> k, id |-> i, sessionId |-> sid, has_status |-> hs, state |-> st,
     message |-> msg, artifacts |-> arts, final |-> fin, metadata |-> md]

None == Update("None", NoValue, NoValue, FALSE, "UNKNOWN", NoMessage, <<>>, FALSE, EmptyMeta)

\* what calling an "async def" without awaiting it evaluates to
Coroutine == Update("coroutine", NoValue, NoValue, FALSE, "UNKNOWN", NoMessage, <<>>, FALSE, EmptyMeta)

IsTaskLike(u) == u.kind \notin {"None", "coroutine"}

\* hasattr(u, attr), for the attributes send_task reads without a guard
HasAttr(u, attr) ==
    CASE attr = "status" -> u.kind \in {"Task", "TaskStatusUpdateEvent"}
      [] attr = "artifacts" -> u.kind = "Task"
      [] attr = "sessionId" -> u.kind = "Task"
      [] OTHER -> FALSE

\* TaskSendParams as HostAgent.send_task builds it
TaskSendParams(tid, sid, text, md) ==
    [id |-> tid, sessionId |-> sid,
     message |-> Message(<<TextPart(text)>>, md),
     metadata |-> MetaSet(EmptyMeta, "conversation_id", sid)]

(***************************************************************************)
(* remote_agent_connection.py                                              *)
(***************************************************************************)
merge_metadata_TargetWins(target, source) ==
    IF Truthy(target) /\ Truthy(source) THEN MetaUpdate(source, target)
    ELSE IF Truthy(source) THEN source
    ELSE target

\* merge_metadata(target, source), on the two metadata values
merge_metadata(target, source) ==
    IF Truthy(target) /\ Truthy(source) THEN MetaUpdate(target, source)
    ELSE IF Truthy(source) THEN source
    ELSE target

RotateMessageId_DropsLast(md, fresh) == MetaSet(md, "message_id", fresh)

\* "Ensure metadata propagation and assign unique message ID": the message_id
\* the metadata holds after the merge becomes last_message_id, fresh is the
\* new message_id
RotateMessageId(md, fresh) ==
    MetaSet(IF MetaHas(md, "message_id")
            THEN MetaSet(md, "last_message_id", md["message_id"])
            ELSE md,
            "message_id", fresh)

HasStatusMessage(u) == u.has_status /\ u.message.present

\* what send_task does to one received result before the callback sees it;
\* fresh is the uuid4 drawn when the result has a status message
ProcessResult(u, request, fresh) ==
    LET merged == [u EXCEPT !.metadata = merge_metadata(u.metadata, request.metadata)]
    IN  IF HasStatusMessage(u)
        THEN [merged EXCEPT !.message.metadata =
                 RotateMessageId(merge_metadata(u.message.metadata,
                                                request.message.metadata), fresh)]
        ELSE merged

UuidsOfResult(u) == IF HasStatusMessage(u) THEN 1 ELSE 0

\* the synthetic update a streaming send_task hands to the callback first
SubmittedTask(request) ==
    Update("Task", request.id, request.sessionId, TRUE, "SUBMITTED",
           request.message, <<>>, FALSE, EmptyMeta)

(***************************************************************************)
(* Text: sequences of tokens.  A marker token stands for one of the        *)
(* phrases of the thought-process pattern, "<" for the character that ends *)
(* the captured group.                                                     *)
(***************************************************************************)
Markers == {"Thought process:", "Reasoning:", "Thinking:", "I need to", "Let me think about"}
Whitespace == {" ", "\n"}

RECURSIVE LStrip(_)
LStrip(t) == IF t # <<>> /\ Head(t) \in Whitespace THEN LStrip(Tail(t)) ELSE t

RECURSIVE RStrip(_)
RStrip(t) == IF t # <<>> /\ t[Len(t)] \in Whitespace THEN RStrip(SubSeq(t, 1, Len(t) - 1)) ELSE t

Strip(t) == RStrip(LStrip(t))

\* "needle in haystack" on str
IsSubstring(needle, hay) ==
    \E i \in 0..(Len(hay) - Len(needle)) : SubSeq(hay, i + 1, i + Len(needle)) = needle

RECURSIVE Join(_, _)
Join(sep, ts) ==
    IF ts = <<>> THEN <<>>
    ELSE IF Len(ts) = 1 THEN ts[1]
    ELSE ts[1] \o sep \o Join(sep, Tail(ts))

\* re.search(r'(?:markers)([^<]*)', text, re.IGNORECASE): the leftmost marker
\* and the text after it up to the next "<"
HasThoughtMatch(text) == \E i \in 1..Len(text) : text[i] \in Markers

ThoughtGroup(text) ==
    LET i == CHOOSE j \in 1..Len(text) :
                 text[j] \in Markers /\ \A k \in 1..(j - 1) : text[k] \notin Markers
        rest == SubSeq(text, i + 1, Len(text))
        stops == {j \in 1..Len(rest) : rest[j] = "<"}
        n == IF stops = {} THEN Len(rest)
             ELSE (CHOOSE j \in stops : \A k \in stops : j <= k) - 1
    IN  SubSeq(rest, 1, n)

(***************************************************************************)
(* Dicts keyed by task id: functions whose domain is the set of keys       *)
(***************************************************************************)
Put(d, k, v) == [x \in (DOMAIN d) \cup {k} |-> IF x = k THEN v ELSE d[x]]

Del_Everything(d, k) == <<>>

Del(d, k) == [x \in (DOMAIN d) \ {k} |-> d[x]]

(***************************************************************************)
(* notification_service.py and host_agent_router.py.  D is the dispatcher  *)
(* state: tph = thought_process_history, cai = current_agent_info,         *)
(* urls = task_notification_urls, sent = the send_task_update calls made   *)
(* on behalf of one send_task invocation, in order.                        *)
(***************************************************************************)
\* what may become of one delivery to a registered URL: the subscriber answers
\* 2xx or something else, client.post raises, or create_token raises
DeliveryOutcomes == {"2xx", "non-2xx", "network_error", "token_error"}

\* NotificationService.send_task_update, called through one of the three
\* send_*_notification wrappers.  D.outcomes holds what the deliveries to come
\* will meet, in order; when it is used up the subscriber answers 2xx.
\* Without a registered URL nothing is posted (lines 142-144); an exception
\* of create_token or client.post is caught (lines 171-173).  posted: an HTTP
\* request was issued, which is where the caller gives way to other
\* coroutines (line 158); ret: the value returned.
send_task_update(D, task_id, type, agent, text) ==
    LET registered == task_id \in DOMAIN D.urls
        outcome == IF ~registered THEN "no_url"
                   ELSE IF D.outcomes = <<>> THEN "2xx"
                   ELSE Head(D.outcomes)
    IN  [D EXCEPT !.sent = Append(@, [type |-> type, task_id |-> task_id,
                                      posted |-> registered /\ outcome # "token_error",
                                      ret |-> outcome = "2xx",
                                      agent |-> agent, text |-> text]),
                  !.outcomes = IF registered /\ @ # <<>> THEN Tail(@) ELSE @]

\* message_text of handle_task_updates: the text parts that are not empty
RECURSIVE MessageText(_)
MessageText(parts) ==
    IF parts = <<>> THEN <<>>
    ELSE (IF Head(parts).type = "text" THEN Head(parts).text ELSE <<>>)
         \o MessageText(Tail(parts))

\* str of one part for the completion result: text, or json.dumps(data)
RECURSIVE MessageParts(_)
MessageParts(parts) ==
    IF parts = <<>> THEN <<>>
    ELSE LET p == Head(parts)
         IN  (IF p.type = "text" /\ p.text # <<>> THEN <<p.text>>
              ELSE IF p.type = "data" /\ p.data # NoValue THEN <<<<"json">>>>
              ELSE <<>>) \o MessageParts(Tail(parts))

TrackAgent_AlwaysNotifies(D, task_id, card) ==
    send_task_update(
        [D EXCEPT !.cai = Put(@, task_id, [name |-> card.name,
                                           description |-> card.description])],
        task_id, "agent_change", card.name, <<>>)

\* lines 68-75: agent change
TrackAgent(D, task_id, card) ==
    IF task_id \notin DOMAIN D.cai \/ D.cai[task_id].name # card.name
    THEN send_task_update(
             [D EXCEPT !.cai = Put(@, task_id, [name |-> card.name,
                                                description |-> card.description])],
             task_id, "agent_change", card.name, <<>>)
    ELSE D

TrackThought_AlwaysAppends(D, task_id, update) ==
    LET message_text == MessageText(update.message.parts)
        thought_process == Strip(ThoughtGroup(message_text))
        history == IF task_id \notin DOMAIN D.tph
                   THEN Put(D.tph, task_id, thought_process)
                   ELSE IF thought_process # <<>>
                   THEN Put(D.tph, task_id, D.tph[task_id] \o <<"\n">> \o thought_process)
                   ELSE D.tph
    IN  IF HasStatusMessage(update) /\ HasThoughtMatch(message_text)
        THEN IF thought_process # <<>>
             THEN send_task_update([D EXCEPT !.tph = history], task_id,
                                   "thought_process", "", history[task_id])
             ELSE [D EXCEPT !.tph = history]
        ELSE D

\* lines 77-103: thought process
TrackThought(D, task_id, update) ==
    LET message_text == MessageText(update.message.parts)
        thought_process == Strip(ThoughtGroup(message_text))
        history == IF task_id \notin DOMAIN D.tph
                   THEN Put(D.tph, task_id, thought_process)
                   ELSE IF thought_process # <<>>
                           /\ ~IsSubstring(thought_process, D.tph[task_id])
                   THEN Put(D.tph, task_id, D.tph[task_id] \o <<"\n">> \o thought_process)
                   ELSE D.tph
    IN  IF HasStatusMessage(update) /\ HasThoughtMatch(message_text)
        THEN IF thought_process # <<>>
             THEN send_task_update([D EXCEPT !.tph = history], task_id,
                                   "thought_process", "", history[task_id])
             ELSE [D EXCEPT !.tph = history]
        ELSE D

\* lines 105-148: the task_completion notification of a COMPLETED update
NotifyCompletion(D, task_id, update, card) ==
    IF update.has_status /\ update.state = "COMPLETED"
    THEN LET response == IF update.message.present
                         THEN Join(<<"\n">>, MessageParts(update.message.parts))
                         ELSE <<>>
         IN  send_task_update(D, task_id, "task_completion", card.name, response)
    ELSE D

CleanUp_OnlyWhenDelivered(D, task_id, update) ==
    IF update.has_status /\ update.state = "COMPLETED"
       /\ D.sent # <<>> /\ D.sent[Len(D.sent)].ret
    THEN [D EXCEPT !.tph = Del(@, task_id), !.cai = Del(@, task_id)]
    ELSE D

\* lines 150-154: the clean-up that follows the notification
CleanUp(D, task_id, update) ==
    IF update.has_status /\ update.state = "COMPLETED"
    THEN [D EXCEPT !.tph = Del(@, task_id), !.cai = Del(@, task_id)]
    ELSE D

\* lines 105-154, without a suspension at the await of line 148
TrackCompletion(D, task_id, update, card) ==
    CleanUp(NotifyCompletion(D, task_id, update, card), task_id, update)

\* handle_task_updates is a coroutine: it gives way to other coroutines at
\* client.post (notification_service.py line 158), that is in a notification
\* for which a request is issued.  Its stretches between two awaits:
\* 1 = lines 68-75, 2 = lines 77-103, 3 = lines 105-148, 4 = lines 150-156.
HandlerStretch(p, D, update, card) ==
    CASE p = 1 -> TrackAgent(D, update.id, card)
      [] p = 2 -> TrackThought(D, update.id, update)
      [] p = 3 -> NotifyCompletion(D, update.id, update, card)
      [] OTHER -> CleanUp(D, update.id, update)

\* the stretch ended in a notification that was posted
Suspends(D, after) == Len(after.sent) > Len(D.sent) /\ after.sent[Len(after.sent)].posted

\* the handler from stretch p on, up to its next suspension or its return:
\* at is the stretch it resumes with, 0 when it has returned
RECURSIVE RunHandler(_, _, _, _)
RunHandler(p, D, update, card) ==
    IF p > 4 THEN [D |-> D, at |-> 0]
    ELSE LET after == HandlerStretch(p, D, update, card)
         IN  IF p < 4 /\ Suspends(D, after) THEN [D |-> after, at |-> p + 1]
             ELSE RunHandler(p + 1, after, update, card)

\* lines 46-51: an update without id is returned at once
StartHandler(D, update, card) ==
    IF update.id = NoValue THEN [D |-> D, at |-> 0] ELSE RunHandler(1, D, update, card)

handle_task_updates_TracksWithoutId(D, update, agent_card) ==
    TrackCompletion(TrackThought(TrackAgent(D, update.id, agent_card),
                                 update.id, update),
                    update.id, update, agent_card)

\* handle_task_updates, run to completion
handle_task_updates(D, update, agent_card) ==
    IF update.id = NoValue THEN D
    ELSE TrackCompletion(TrackThought(TrackAgent(D, update.id, agent_card),
                                      update.id, update),
                         update.id, update, agent_card)

(***************************************************************************)
(* host_agent.py                                                           *)
(***************************************************************************)
\* a session state dict: keys is the set of keys it holds; a field whose key
\* is absent keeps its default value
EmptyState == [keys |-> {}, agent |-> "", session_active |-> FALSE,
               task_id |-> NoValue, session_id |-> NoValue,
               input_message_metadata |-> EmptyMeta]

NoError == [exc |-> "", agent |-> "", task |-> NoValue]
Error(e, a, t) == [exc |-> e, agent |-> a, task |-> t]

NoCard == Card("", "", FALSE)

\* The frame of one send_task invocation.  pc is where it stands: "awaiting"
\* and "streaming" are its two suspension points, "returned" and "raised" its
\* two ends.  before is the session state at entry, prev what the session's
\* previous invocation left, received what the remote agent has sent so far,
\* cb the task_callback calls and sent the notifications they caused.
\* A frame with pc "posting" is a run of handle_task_updates suspended in
\* the post of a notification, at the stretch it resumes with; with pc
\* "handled" the run has returned, at is the stretch with which it last got
\* control, tph and cai are the thought_process_history and the
\* current_agent_info it found then.
IdleCall == [pc |-> "idle", n |-> 0, session |-> "", agent_name |-> "", card |-> NoCard,
             request |-> TaskSendParams(NoValue, NoValue, <<>>, EmptyMeta),
             remote_requests |-> 0, received |-> <<>>, task |-> None, cb |-> <<>>,
             sent |-> <<>>, result |-> None, response |-> <<>>, error |-> NoError,
             skip_summarization |-> FALSE, escalate |-> FALSE, saved |-> <<>>,
             before |-> EmptyState, tph |-> <<>>, cai |-> <<>>,
             notification_url |-> "", at |-> 0,
             prev |-> [task_id |-> NoValue, has_result |-> FALSE, state |-> "UNKNOWN", n |-> 0]]

\* what is remembered of a session's last ended invocation: the task id of
\* its request and the state of the result it received
NoneFinished == IdleCall.prev

Summary(frame) ==
    [task_id |-> frame.request.id,
     has_result |-> IsTaskLike(frame.result) /\ frame.result.has_status,
     state |-> frame.result.state, n |-> frame.n]

\* the items of the list send_task returns; DataPartItem(n) is
\* DataPart(data = {"artifact-file-id": n}), blob the binary an item holds
StrItem(t) == [type |-> "str", text |-> t, data |-> NoValue, file |-> "", blob |-> ""]
DictItem(d) == [type |-> "dict", text |-> <<>>, data |-> d, file |-> "", blob |-> ""]
DataPartItem(n) == [type |-> "DataPart", text |-> <<>>, data |-> NoValue, file |-> n, blob |-> ""]

\* base64.b64decode on the encodings the inputs use
b64decode(b) == IF b = "Y2hhcnQ=" THEN "chart"
                ELSE IF b = "dGFibGU=" THEN "table"
                ELSE ""

\* str(item), for "\n".join(map(str, response))
StrOf(item) == IF item.type = "str" THEN item.text
               ELSE IF item.type = "dict" THEN <<"dict">>
               ELSE <<"DataPart">>

\* convert_part, on the conversion context ctx = the list built so far, the
\* artifacts saved, the two tool_context.actions flags and the exception.
\* The last line of convert_part reads p, a name that function does not bind.
convert_part_FileInline(part, ctx) ==
    IF part.type = "text" THEN [ctx EXCEPT !.rval = Append(@, StrItem(part.text))]
    ELSE IF part.type = "data" THEN [ctx EXCEPT !.rval = Append(@, DictItem(part.data))]
    ELSE IF part.type = "file"
    THEN [ctx EXCEPT !.rval = Append(@, [DataPartItem(part.file) EXCEPT
                                            !.blob = b64decode(part.bytes)])]
    ELSE [ctx EXCEPT !.exc = "NameError"]

convert_part(part, ctx) ==
    IF part.type = "text" THEN [ctx EXCEPT !.rval = Append(@, StrItem(part.text))]
    ELSE IF part.type = "data" THEN [ctx EXCEPT !.rval = Append(@, DictItem(part.data))]
    ELSE IF part.type = "file"
    THEN [ctx EXCEPT !.saved = Append(@, [name |-> part.file,
                                          data |-> b64decode(part.bytes)]),
                     !.skip_summarization = TRUE,
                     !.escalate = TRUE,
                     !.rval = Append(@, DataPartItem(part.file))]
    ELSE [ctx EXCEPT !.exc = "NameError"]

RECURSIVE convert_parts(_, _)
convert_parts(parts, ctx) ==
    IF parts = <<>> \/ ctx.exc # "" THEN ctx
    ELSE convert_parts(Tail(parts), convert_part(Head(parts), ctx))

ConvertArtifacts_FirstOnly(artifacts, ctx) ==
    IF artifacts = <<>> \/ ctx.exc # "" THEN ctx
    ELSE convert_parts(Head(artifacts), ctx)

\* lines 230-234: the parts of every artifact, in order
RECURSIVE ConvertArtifacts(_, _)
ConvertArtifacts(artifacts, ctx) ==
    IF artifacts = <<>> \/ ctx.exc # "" THEN ctx
    ELSE ConvertArtifacts(Tail(artifacts), convert_parts(Head(artifacts), ctx))

Terminal == {"COMPLETED", "CANCELED", "FAILED", "UNKNOWN"}

SessionActiveAfter_UnknownActive(task_state) ==
    task_state \notin {"COMPLETED", "CANCELED", "FAILED"}

SessionActiveAfter_FailedActive(task_state) ==
    task_state \notin {"COMPLETED", "CANCELED", "UNKNOWN"}

\* lines 208-213
SessionActiveAfter(task_state) == task_state \notin Terminal

\* state[key] = value
SetActive(st, v) == [st EXCEPT !.keys = @ \cup {"session_active"}, !.session_active = v]
SetAgent(st, a) == [st EXCEPT !.keys = @ \cup {"agent"}, !.agent = a]
SetSessionId(st, v) == [st EXCEPT !.keys = @ \cup {"session_id"}, !.session_id = v]

\* what the injected task_callback returns for an update
CallbackReturn(cbk, update) == IF cbk = "sync" THEN update ELSE Coroutine

\* one call of the injected task_callback: acc carries the dispatcher state D
\* and the call's log cb.  "sync" runs handle_task_updates to completion and
\* returns its result; "async" is the coroutine function itself, called but
\* never awaited, so that its body does not run.
\* by names the caller, raw the update as it was before send_task touched it.
Invoke(cbk, acc, update, card, by, raw) ==
    [D |-> IF cbk = "sync" THEN handle_task_updates(acc.D, update, card) ELSE acc.D,
     cb |-> Append(acc.cb, [arg |-> update, ret |-> CallbackReturn(cbk, update),
                            card |-> card, by |-> by, raw |-> raw])]

NonStreamingReturn_CallbackValue(cbk, processed) ==
    IF cbk # "none" THEN CallbackReturn(cbk, processed) ELSE processed

\* the non-streaming send_task returns the response, whatever the callback
\* returned (line 123)
NonStreamingReturn(cbk, processed) == processed

StreamTask_KeepsFirst(cbk, task, processed) ==
    IF cbk # "none" /\ ~IsTaskLike(task) THEN CallbackReturn(cbk, processed) ELSE task

\* the streaming send_task keeps what the callback returned for the update it
\* has just read (lines 96-97)
StreamTask(cbk, task, processed) ==
    IF cbk # "none" THEN CallbackReturn(cbk, processed) ELSE task

StreamStops_Never(processed) == FALSE

\* the streaming send_task leaves its loop after an update marked final
\* (lines 99-100)
StreamStops(processed) == processed.final

\* lines 214-217: tool_context.actions after an INPUT_REQUIRED result
EscalationFlags(task_state) ==
    [skip_summarization |-> task_state = "INPUT_REQUIRED",
     escalate |-> task_state = "INPUT_REQUIRED"]

Entry_SetsAgentFirst(conns, st, agent_name) ==
    [exc |-> IF ~DictHas(conns, agent_name) THEN "AgentNotFound" ELSE "",
     st |-> SetAgent(st, agent_name)]

\* lines 171-174: the lookup of agent_name and what it makes of the session
\* state st
Entry(conns, st, agent_name) ==
    IF ~DictHas(conns, agent_name)
    THEN [exc |-> "AgentNotFound", st |-> st]
    ELSE [exc |-> "", st |-> SetAgent(st, agent_name)]

SynthesizedUpdate_AlwaysCompleted(task, response) ==
    Update("TaskStatusUpdateEvent", task.id, NoValue, TRUE, "COMPLETED",
           Message(<<TextPart(Join(<<"\n">>, [i \in 1..Len(response) |-> StrOf(response[i])]))>>,
                   EmptyMeta),
           <<>>, FALSE, EmptyMeta)

\* the status update send_task synthesizes from a non-empty response list;
\* the sessionId keyword is no field of TaskStatusUpdateEvent and is dropped
SynthesizedUpdate(task, response) ==
    Update("TaskStatusUpdateEvent", task.id, NoValue, TRUE, task.state,
           Message(<<TextPart(Join(<<"\n">>, [i \in 1..Len(response) |-> StrOf(response[i])]))>>,
                   EmptyMeta),
           <<>>, FALSE, EmptyMeta)

\* send_task from the return of client.send_task on (lines 208-257): cr is the
\* call, st its session state, acc the dispatcher state and callback log, task
\* the value client.send_task returned
AfterRemote(cbk, cr, st, acc, task) ==
    LET returned == [cr EXCEPT !.result = task, !.cb = acc.cb, !.sent = acc.D.sent]
    IN
    IF ~HasAttr(task, "status")
    THEN [call |-> [returned EXCEPT !.pc = "raised",
                                    !.error = Error("AttributeError", "", NoValue)],
          st |-> st, D |-> acc.D]
    ELSE
    LET st1 == SetActive(st, SessionActiveAfter(task.state))
        esc == EscalationFlags(task.state)
        ctx0 == [rval |-> <<>>, saved |-> <<>>, skip_summarization |-> esc.skip_summarization,
                 escalate |-> esc.escalate, exc |-> ""]
        ctx1 == IF task.message.present THEN convert_parts(task.message.parts, ctx0) ELSE ctx0
        ctx2 == ConvertArtifacts(task.artifacts, ctx1)
        flagged == [returned EXCEPT !.skip_summarization = ctx2.skip_summarization,
                                    !.escalate = ctx2.escalate,
                                    !.saved = ctx2.saved]
        \* line 230 reads task.artifacts after lines 208-228 have run
        noArtifacts == [returned EXCEPT !.pc = "raised",
                                        !.error = Error("AttributeError", "", NoValue),
                                        !.skip_summarization = ctx1.skip_summarization,
                                        !.escalate = ctx1.escalate,
                                        !.saved = ctx1.saved]
        acc2 == IF cbk # "none" /\ ctx2.rval # <<>>
                THEN Invoke(cbk, acc, SynthesizedUpdate(task, ctx2.rval), cr.card, "host",
                            SynthesizedUpdate(task, ctx2.rval))
                ELSE acc
    IN
    IF task.state = "CANCELED"
    THEN [call |-> [returned EXCEPT !.pc = "raised",
                                    !.error = Error("TaskCanceled", cr.agent_name, task.id)],
          st |-> st1, D |-> acc.D]
    ELSE IF task.state = "FAILED"
    THEN [call |-> [returned EXCEPT !.pc = "raised",
                                    !.error = Error("TaskFailed", cr.agent_name, task.id)],
          st |-> st1, D |-> acc.D]
    ELSE IF ctx1.exc = "" /\ ~HasAttr(task, "artifacts")
    THEN [call |-> noArtifacts, st |-> st1, D |-> acc.D]
    ELSE IF ctx2.exc # ""
    THEN [call |-> [flagged EXCEPT !.pc = "raised",
                                   !.error = Error(ctx2.exc, "", NoValue)],
          st |-> st1, D |-> acc.D]
    ELSE [call |-> [flagged EXCEPT !.pc = "returned",
                                   !.response = ctx2.rval,
                                   !.cb = acc2.cb, !.sent = acc2.D.sent],
          st |-> st1, D |-> acc2.D]

(***************************************************************************)
(* Inputs                                                                  *)
(***************************************************************************)
BuildText == <<"build a plan">>
PlanText == <<"Plan: step1, step2">>
ThoughtA == <<"Thinking:", " ", "check the ledger">>
ThoughtAB == <<"I need to", " ", "check the ledger", "\n", "ask the planner", "<", "done">>

\* metadata the remote agent may have put on its status message
RemoteMetaId == [EmptyMeta EXCEPT !["message_id"] = RemoteMessageId]
RemoteMetaConv == [EmptyMeta EXCEPT !["conversation_id"] = RemoteValue,
                                    !["user_id"] = RemoteValue]

\* the session states an ADK session may hand to the first callback or tool
\* call: nothing yet, or a task id and the metadata of the user's message
PresetState == [EmptyState EXCEPT
                   !.keys = {"task_id", "input_message_metadata"},
                   !.task_id = PresetTaskId,
                   !.input_message_metadata =
                       [EmptyMeta EXCEPT !["message_id"] = PresetMessageId,
                                         !["user_id"] = UserValue]]

InitialStates == {EmptyState, PresetState}

Task(req, st, msg, arts) ==
    Update("Task", req.id, req.sessionId, TRUE, st, msg, arts, FALSE, EmptyMeta)

\* the events of the stream carry the task id of the request, no session id
StatusEvent(req, st, msg, fin) ==
    Update("TaskStatusUpdateEvent", req.id, NoValue, TRUE, st, msg, <<>>, fin, EmptyMeta)

ArtifactEvent(req, arts) ==
    Update("TaskArtifactUpdateEvent", req.id, NoValue, FALSE, "UNKNOWN",
           NoMessage, arts, FALSE, EmptyMeta)

\* the Task a non-streaming agent may answer a request with
Responses(req) ==
    {Task(req, st, msg, <<>>) :
        st \in TaskState, msg \in {NoMessage, Message(<<TextPart(PlanText)>>, EmptyMeta)}}
    \cup
    {Task(req, st, msg, <<>>) :
        st \in {"COMPLETED", "INPUT_REQUIRED"},
        msg \in {Message(<<>>, EmptyMeta),
                 Message(<<TextPart(PlanText)>>, RemoteMetaId),
                 Message(<<TextPart(ThoughtA), DataPart(7)>>, RemoteMetaConv),
                 Message(<<FilePart("chart.png", "Y2hhcnQ=")>>, EmptyMeta),
                 Message(<<OtherPart>>, EmptyMeta)}}
    \cup
    {Task(req, "COMPLETED", NoMessage, <<<<TextPart(PlanText)>>, <<DataPart(7)>>>>),
     Task(req, "COMPLETED",
          Message(<<TextPart(PlanText), FilePart("chart.png", "Y2hhcnQ=")>>, EmptyMeta),
          <<<<DataPart(7), FilePart("table.csv", "dGFibGU=")>>, <<TextPart(BuildText)>>>>)}

\* the updates a streaming agent may put on the stream
StreamUpdates(req) ==
    {StatusEvent(req, "WORKING", Message(<<TextPart(ThoughtA)>>, RemoteMetaId), FALSE),
     StatusEvent(req, "WORKING", NoMessage, FALSE),
     StatusEvent(req, "INPUT_REQUIRED", NoMessage, TRUE),
     StatusEvent(req, "COMPLETED", Message(<<TextPart(PlanText)>>, RemoteMetaConv), TRUE),
     StatusEvent(req, "FAILED", NoMessage, TRUE),
     ArtifactEvent(req, <<<<TextPart(PlanText)>>>>),
     StatusEvent([id |-> NoValue, sessionId |-> req.sessionId], "WORKING",
                 Message(<<TextPart(ThoughtA)>>, EmptyMeta), FALSE)}

\* the requests RemoteAgentConnections.send_task may be called with: as
\* HostAgent.send_task builds them, and with message metadata that lacks a
\* message_id or is empty
ConnectionRequests ==
    {TaskSendParams(PresetTaskId, UserValue, BuildText, md) :
        md \in {[EmptyMeta EXCEPT !["conversation_id"] = UserValue,
                                  !["message_id"] = PresetMessageId],
                [EmptyMeta EXCEPT !["conversation_id"] = UserValue],
                EmptyMeta}}

\* metadata of a remote message that was itself an answer to another one
RemoteMetaChained == [EmptyMeta EXCEPT !["message_id"] = RemoteMessageId,
                                       !["last_message_id"] = RemoteValue]

\* the results a connection may receive for a request
ConnectionResults(req) ==
    {Task(req, "COMPLETED", msg, <<>>) :
        msg \in {NoMessage,
                 Message(<<TextPart(PlanText)>>, EmptyMeta),
                 Message(<<TextPart(PlanText)>>, RemoteMetaId),
                 Message(<<TextPart(PlanText)>>, RemoteMetaConv),
                 Message(<<TextPart(PlanText)>>, RemoteMetaChained)}}
    \cup
    {StatusEvent(req, "WORKING", Message(<<TextPart(ThoughtA)>>, RemoteMetaId), FALSE),
     ArtifactEvent(req, <<<<TextPart(PlanText)>>>>)}

\* the task id of the updates handed to handle_task_updates on its own
HandledTaskId == 1

HandledRequest == [id |-> HandledTaskId, sessionId |-> NoValue]

\* the updates handle_task_updates may be called with, at any time: two
\* fragments of which one holds the other, a completion, a failure, and an
\* update without id
HandledUpdates ==
    {StatusEvent(HandledRequest, "WORKING", Message(<<TextPart(t)>>, EmptyMeta), FALSE) :
        t \in {ThoughtA, ThoughtAB}}
    \cup
    {StatusEvent(HandledRequest, "COMPLETED", NoMessage, TRUE),
     StatusEvent(HandledRequest, "FAILED", NoMessage, TRUE),
     StatusEvent([id |-> NoValue, sessionId |-> NoValue], "COMPLETED",
                 Message(<<TextPart(ThoughtA)>>, EmptyMeta), TRUE)}

\* the cards of the agents whose updates are handled
HandledCards == {Card("planner-agent", "v1", FALSE), Card("db-agent", "v1", TRUE)}

(***************************************************************************)
(* State                                                                   *)
(***************************************************************************)
\* the dispatcher state a handler run starts from; outcomes is what its
\* deliveries will meet
DispatcherWith(sent, outcomes) ==
    [tph |-> thought_process_history, cai |-> current_agent_info,
     urls |-> task_notification_urls, sent |-> sent, outcomes |-> outcomes]

\* ... with a subscriber that answers every delivery with 2xx
Dispatcher(sent) == DispatcherWith(sent, <<>>)

SetDispatcher(D) ==
    /\ thought_process_history' = D.tph
    /\ current_agent_info' = D.cai
    /\ UNCHANGED task_notification_urls

directoryVars == <<remote_agent_connections, cards, agents, regLog>>
dispatcherVars == <<thought_process_history, current_agent_info, task_notification_urls>>
callVars == <<calls, last, finished, started>>
cacheVars == <<cache_data, cache_ttl, clock, cache_written, cache_last>>

(***************************************************************************)
(* in_memory_cache.py                                                      *)
(***************************************************************************)
CacheKeys == {"k1", "k2"}
CacheValues == {"v1", "v2"}
CacheDefaults == {"None", "v1"}

\* the ttl argument of set: given is FALSE for ttl=None
NoTtl == [given |-> FALSE, secs |-> 0]
Ttls == {NoTtl} \cup {[given |-> TRUE, secs |-> n] : n \in 0..MaxTtl}

NeverWritten == [present |-> FALSE, value |-> "", ttl |-> NoTtl, at |-> 0]
NoCacheCall == [op |-> "", key |-> "", default |-> "", ret |-> "", at |-> 0,
                was |-> NeverWritten]

\* InMemoryCache.__init__
CacheCreated ==
    /\ cache_data = <<>>
    /\ cache_ttl = <<>>
    /\ clock = 0
    /\ cache_written = [k \in CacheKeys |-> NeverWritten]
    /\ cache_last = NoCacheCall

ExpiryAfterSet_KeepsEarlier(ttls, key, ttl, now) ==
    IF ttl.given THEN Put(ttls, key, now + ttl.secs) ELSE ttls

\* lines 94-98: _ttl after set(key, value, ttl) at time now
ExpiryAfterSet(ttls, key, ttl, now) ==
    IF ttl.given THEN Put(ttls, key, now + ttl.secs) ELSE Del(ttls, key)

\* line 111
Expired(ttls, key, now) == key \in DOMAIN ttls /\ now > ttls[key]

\* HostAgent.__init__ on the cards cs the configured addresses resolve to; no
\* send_task has been called yet
Constructed(cs) ==
    /\ LET dir == RegisterAll(EmptyDir, cs)
       IN  /\ remote_agent_connections = dir.conns
           /\ cards = dir.cards
           /\ agents = list_remote_agents(dir.conns, dir.cards)
           /\ regLog = cs
    /\ task_callback \in {"none", "sync", "async"}
    /\ \E st \in InitialStates : state = [s \in Sessions |-> IF s = "s1" THEN st ELSE EmptyState]
    /\ calls = [c \in CallIds |-> IdleCall]
    /\ last = IdleCall
    /\ finished = [s \in Sessions |-> NoneFinished]
    /\ started = 0
    /\ uuid = 0
    /\ thought_process_history = <<>>
    /\ current_agent_info = <<>>
    /\ task_notification_urls = <<>>
    /\ CacheCreated

\* a host with one agent that answers once and one that streams
Init == Constructed(<<Card("planner-agent", "v1", FALSE), Card("db-agent", "v1", TRUE)>>)

\* any of the directories the constructor may build
InitDirectory == \E cs \in AddressLists : Constructed(cs)

(***************************************************************************)
(* Operations                                                              *)
(***************************************************************************)
\* HostAgent.register_agent_card
register_agent_card(card) ==
    /\ Len(regLog) < MaxRegs
    /\ LET dir == RegisterCard([conns |-> remote_agent_connections, cards |-> cards], card)
       IN  /\ remote_agent_connections' = dir.conns
           /\ cards' = dir.cards
           /\ agents' = list_remote_agents(dir.conns, dir.cards)
    /\ regLog' = Append(regLog, card)
    /\ UNCHANGED <<task_callback, cacheVars, state, callVars, uuid, dispatcherVars>>

before_model_callback_AlwaysNewId(s) ==
    LET st == state[s]
    IN  /\ "session_active" \notin st.keys \/ ~st.session_active
        /\ state' = [state EXCEPT ![s] = SetActive(SetSessionId(st, uuid + 1), TRUE)]
        /\ uuid' = uuid + 1
        /\ last' = IdleCall
        /\ UNCHANGED <<directoryVars, task_callback, cacheVars, calls, finished, started, dispatcherVars>>

\* HostAgent.before_model_callback
before_model_callback(s) ==
    LET st == state[s]
    IN  /\ "session_active" \notin st.keys \/ ~st.session_active
        /\ state' = [state EXCEPT ![s] =
                        SetActive(IF "session_id" \in st.keys THEN st
                                  ELSE SetSessionId(st, uuid + 1), TRUE)]
        /\ uuid' = IF "session_id" \in st.keys THEN uuid ELSE uuid + 1
        /\ last' = IdleCall
        /\ UNCHANGED <<directoryVars, task_callback, cacheVars, calls, finished, started, dispatcherVars>>

\* NotificationService.register_task_notification, for a task id that a
\* request in flight carries
register_task_notification(task_id) ==
    /\ task_id # NoValue
    /\ task_id \notin DOMAIN task_notification_urls
    /\ task_notification_urls' = Put(task_notification_urls, task_id, "http://subscriber")
    /\ UNCHANGED <<directoryVars, task_callback, cacheVars, state, callVars, uuid,
                   thought_process_history, current_agent_info>>

\* an invocation ends: its frame leaves the call slot
End(frame) ==
    /\ calls' = [c \in CallIds |-> IF calls[c].n = frame.n THEN IdleCall ELSE calls[c]]
    /\ last' = frame
    /\ finished' = [finished EXCEPT ![frame.session] = Summary(frame)]

\* HostAgent.send_task up to its await (lines 171-206), and with it
\* RemoteAgentConnections.send_task up to its first await (lines 67-81, 105)
send_task(c, s, agent_name, message) ==
    LET st == state[s]
        entered == [IdleCall EXCEPT !.n = started + 1, !.session = s,
                                    !.agent_name = agent_name,
                                    !.before = st,
                                    !.prev = finished[s]]
    IN
    /\ started < MaxCalls
    /\ calls[c].pc = "idle"
    /\ \A d \in CallIds : d < c => calls[d].pc # "idle"
    /\ started' = started + 1
    /\ IF Entry(remote_agent_connections, st, agent_name).exc # ""
       THEN /\ End([entered EXCEPT !.pc = "raised",
                                   !.error = Error("AgentNotFound", agent_name, NoValue)])
            /\ state' = [state EXCEPT ![s] = Entry(remote_agent_connections, st, agent_name).st]
            /\ UNCHANGED <<uuid, dispatcherVars>>
       ELSE
       LET st1 == Entry(remote_agent_connections, st, agent_name).st
           card == DictGet(cards, agent_name)
           client == DictGet(remote_agent_connections, agent_name)
           hasTask == "task_id" \in st1.keys
           taskId == IF hasTask THEN st1.task_id ELSE uuid + 1
           u1 == IF hasTask THEN uuid ELSE uuid + 1
       IN
       IF "session_id" \notin st1.keys
       THEN /\ End([entered EXCEPT !.pc = "raised", !.card = card,
                                      !.error = Error("KeyError", "", NoValue)])
            /\ state' = [state EXCEPT ![s] = st1]
            /\ uuid' = u1
            /\ UNCHANGED dispatcherVars
       ELSE
       LET sessionId == st1.session_id
           carried == IF "input_message_metadata" \in st1.keys
                      THEN st1.input_message_metadata ELSE EmptyMeta
           hasMessageId == MetaHas(carried, "message_id")
           messageId == IF hasMessageId THEN carried["message_id"] ELSE u1 + 1
           u2 == IF hasMessageId THEN u1 ELSE u1 + 1
           metadata == MetaSet(MetaSet(carried, "conversation_id", sessionId),
                               "message_id", messageId)
           request == TaskSendParams(taskId, sessionId, message, metadata)
           acc0 == [D |-> Dispatcher(<<>>), cb |-> <<>>]
           acc1 == IF client.streaming /\ task_callback # "none"
                   THEN Invoke(task_callback, acc0, SubmittedTask(request), client,
                               "connection", SubmittedTask(request))
                   ELSE acc0
       IN  /\ calls' = [calls EXCEPT ![c] =
                           [entered EXCEPT !.pc = IF client.streaming THEN "streaming"
                                                  ELSE "awaiting",
                                           !.card = card,
                                           !.request = request,
                                           !.remote_requests = 1,
                                           !.cb = acc1.cb,
                                           !.sent = acc1.D.sent]]
           /\ state' = [state EXCEPT ![s] = st1]
           /\ uuid' = u2
           /\ SetDispatcher(acc1.D)
           /\ last' = IdleCall
           /\ UNCHANGED finished
    /\ UNCHANGED <<directoryVars, task_callback, cacheVars>>

\* the rest of send_task once client.send_task has returned task
Finish(cr, acc, task, u) ==
    LET out == AfterRemote(task_callback, cr, state[cr.session], acc, task)
    IN  /\ End(out.call)
        /\ state' = [state EXCEPT ![cr.session] = out.st]
        /\ uuid' = u
        /\ SetDispatcher(out.D)
        /\ UNCHANGED <<directoryVars, task_callback, cacheVars, started>>

\* the non-streaming agent answers: remote_agent_connection.py lines 105-123,
\* then host_agent.py lines 208-257
RemoteResponds(c, result) ==
    LET cr == calls[c]
        processed == ProcessResult(result, cr.request, uuid + 1)
        acc0 == [D |-> Dispatcher(cr.sent), cb |-> cr.cb]
        acc1 == IF task_callback # "none"
                THEN Invoke(task_callback, acc0, processed, cr.card, "connection", result)
                ELSE acc0
    IN  /\ cr.pc = "awaiting"
        /\ Finish([cr EXCEPT !.received = <<result>>], acc1,
                  NonStreamingReturn(task_callback, processed),
                  uuid + UuidsOfResult(result))

\* the streaming agent sends one update: remote_agent_connection.py lines
\* 81-100; a final update also ends the call (line 102, host_agent.py 208-257)
StreamSends(c, update) ==
    LET cr == calls[c]
        processed == ProcessResult(update, cr.request, uuid + 1)
        acc0 == [D |-> Dispatcher(cr.sent), cb |-> cr.cb]
        acc1 == IF task_callback # "none"
                THEN Invoke(task_callback, acc0, processed, cr.card, "connection", update)
                ELSE acc0
        task == StreamTask(task_callback, cr.task, processed)
        read == [cr EXCEPT !.received = Append(@, update), !.task = task,
                           !.cb = acc1.cb, !.sent = acc1.D.sent]
    IN  /\ cr.pc = "streaming"
        /\ Len(cr.received) < MaxStream
        /\ IF StreamStops(processed)
           THEN Finish(read, acc1, task, uuid + UuidsOfResult(update))
           ELSE /\ calls' = [calls EXCEPT ![c] = read]
                /\ uuid' = uuid + UuidsOfResult(update)
                /\ SetDispatcher(acc1.D)
                /\ UNCHANGED <<directoryVars, task_callback, cacheVars, state, last, finished, started>>

\* the stream ends without a final update: line 102, host_agent.py 208-257
StreamEnds(c) ==
    LET cr == calls[c]
    IN  /\ cr.pc = "streaming"
        /\ Finish(cr, [D |-> Dispatcher(cr.sent), cb |-> cr.cb], cr.task, uuid)

StateAfterRemoteError_Inactive(st) == SetActive(st, FALSE)

\* an exception of client.send_task leaves HostAgent.send_task at line 206:
\* none of the statements that follow the await writes the session state
StateAfterRemoteError(st) == st

\* the remote call fails (the agent is unreachable, the answer is no valid
\* response, the stream breaks): the exception of agent_client.send_task or
\* send_task_streaming is caught neither by RemoteAgentConnections.send_task
\* nor by HostAgent.send_task
RemoteFails(c) ==
    LET cr == calls[c]
    IN  /\ cr.pc \in {"awaiting", "streaming"}
        /\ End([cr EXCEPT !.pc = "raised", !.error = Error("RemoteError", "", NoValue)])
        /\ state' = [state EXCEPT ![cr.session] = StateAfterRemoteError(@)]
        /\ UNCHANGED <<directoryVars, task_callback, cacheVars, started, uuid, dispatcherVars>>

\* no invocation is in flight: the caller's discipline of one send_task at a
\* time per conversation
Quiet == \A c \in CallIds : calls[c].pc = "idle"

\* one conversation, one send_task at a time; the model is not called, and
\* so the callback does not run, while a tool call of the turn is in flight
Next ==
    \/ \E s \in {"s1"} : Quiet /\ before_model_callback(s)
    \/ \E c \in CallIds, s \in {"s1"}, a \in AgentNames \cup {UnknownAgent} :
          Quiet /\ send_task(c, s, a, BuildText)
    \/ \E c \in CallIds : \E r \in Responses(calls[c].request) : RemoteResponds(c, r)
    \/ \E c \in CallIds : \E u \in StreamUpdates(calls[c].request) : StreamSends(c, u)
    \/ \E c \in CallIds : StreamEnds(c)
    \/ \E c \in CallIds : RemoteFails(c)
    \/ \E c \in CallIds : calls[c].pc # "idle" /\ register_task_notification(calls[c].request.id)

Spec == Init /\ [][Next]_vars

\* what the agents answer when several calls are in flight
ConcurrentResponses(req) ==
    {Task(req, "COMPLETED", Message(<<TextPart(PlanText)>>, EmptyMeta), <<>>),
     Task(req, "WORKING", Message(<<TextPart(ThoughtA)>>, EmptyMeta), <<>>)}

ConcurrentUpdates(req) ==
    {StatusEvent(req, "WORKING", Message(<<TextPart(ThoughtA)>>, EmptyMeta), FALSE),
     StatusEvent(req, "COMPLETED", Message(<<TextPart(PlanText)>>, EmptyMeta), TRUE)}

\* two conversations, and nothing that keeps a caller from starting a
\* send_task while another one is suspended at its await
NextConcurrent ==
    \/ \E s \in Sessions : before_model_callback(s)
    \/ \E c \in CallIds, s \in Sessions, a \in AgentNames : send_task(c, s, a, BuildText)
    \/ \E c \in CallIds : \E r \in ConcurrentResponses(calls[c].request) : RemoteResponds(c, r)
    \/ \E c \in CallIds : \E u \in ConcurrentUpdates(calls[c].request) : StreamSends(c, u)
    \/ \E c \in CallIds : RemoteFails(c)
    \/ \E c \in CallIds : calls[c].pc # "idle" /\ register_task_notification(calls[c].request.id)

SpecConcurrent == Init /\ [][NextConcurrent]_vars

NextDirectory == \E card \in Cards : register_agent_card(card)

\* a run of handle_task_updates that got control at stretch p moves on: r is
\* where it stops and what it leaves.  The frame of a run that has returned
\* tells with which stretch it last got control and how it found the dicts.
HandlerMoves(c, frame, p, r) ==
    /\ SetDispatcher(r.D)
    /\ IF r.at = 0
       THEN /\ calls' = [calls EXCEPT ![c] = IdleCall]
            /\ last' = [frame EXCEPT !.pc = "handled", !.at = p, !.sent = r.D.sent,
                                     !.tph = thought_process_history,
                                     !.cai = current_agent_info]
       ELSE /\ calls' = [calls EXCEPT ![c] = [frame EXCEPT !.pc = "posting", !.at = r.at,
                                                           !.sent = r.D.sent]]
            /\ last' = IdleCall
    /\ UNCHANGED <<directoryVars, task_callback, cacheVars, state, finished, started, uuid>>

\* handle_task_updates is awaited on update for agent_card, whatever other
\* runs are suspended, and runs to its first suspension or to its return;
\* outcomes is what the deliveries of this stretch meet.  The run takes the
\* first free slot: MaxCalls runs may be in flight together.
handle_update(c, update, agent_card, outcomes) ==
    LET frame == [IdleCall EXCEPT !.card = agent_card,
                                  !.cb = <<[arg |-> update, ret |-> update,
                                            card |-> agent_card, by |-> "router",
                                            raw |-> update]>>]
    IN  /\ calls[c].pc = "idle"
        /\ \A d \in CallIds : d < c => calls[d].pc # "idle"
        /\ \E r \in {StartHandler(DispatcherWith(<<>>, outcomes), update, agent_card)} :
              HandlerMoves(c, frame, 1, r)

\* the post a run of handle_task_updates waits for has been answered: the run
\* goes on to its next suspension or to its return
handler_resumes(c, outcomes) ==
    LET frame == calls[c]
    IN  /\ frame.pc = "posting"
        /\ \E r \in {RunHandler(frame.at, DispatcherWith(frame.sent, outcomes),
                                 frame.cb[1].arg, frame.cb[1].card)} :
              HandlerMoves(c, frame, frame.at, r)

\* the update handler and the registration of subscribers, on their own
NextDispatcher ==
    \/ \E c \in CallIds, u \in HandledUpdates, card \in HandledCards,
          o \in DeliveryOutcomes : handle_update(c, u, card, <<o, o, o>>)
    \/ \E c \in CallIds, o \in DeliveryOutcomes : handler_resumes(c, <<o, o, o>>)
    \/ register_task_notification(HandledTaskId)

\* the router's module state after import: the host agent as wired, nothing
\* handled yet
InitDispatcher ==
    /\ Init
    /\ task_callback = "async"
    /\ state = [s \in Sessions |-> EmptyState]

SpecDispatcher == InitDispatcher /\ [][NextDispatcher]_vars

\* RemoteAgentConnections.send_task from the arrival of one result to the
\* callback (lines 82-94, 106-118), for any request it may be called with
process_result(request, card, result) ==
    /\ uuid < MaxResults
    /\ last' = [IdleCall EXCEPT !.pc = "processed", !.card = card, !.request = request,
                                !.received = <<result>>,
                                !.result = ProcessResult(result, request, uuid + 1)]
    /\ uuid' = uuid + UuidsOfResult(result)
    /\ UNCHANGED <<directoryVars, task_callback, cacheVars, state, calls, finished, started,
                   dispatcherVars>>

NextConnection ==
    \E request \in ConnectionRequests, card \in HandledCards :
        \E result \in ConnectionResults(request) : process_result(request, card, result)

SpecConnection == InitDispatcher /\ [][NextConnection]_vars

\* create_task is given no tool context
NoToolContext == "None"

\* the notification_url of a request body, "" when the body has none
NotificationUrls == {"", "http://subscriber", "http://dashboard"}

\* HostAgent.send_task as create_task calls it: after the lookup of line 171,
\* line 173 reads tool_context.state
SendTaskOf(conns, tool_context, agent_name) ==
    IF ~DictHas(conns, agent_name) THEN Error("AgentNotFound", agent_name, NoValue)
    ELSE IF tool_context = NoToolContext THEN Error("AttributeError", "", NoValue)
    ELSE NoError

create_task_RegistersFirst(agent_name, notification_url) ==
    LET raised == SendTaskOf(remote_agent_connections, NoToolContext, agent_name)
    IN  /\ started < MaxCalls
        /\ Quiet
        /\ raised # NoError
        /\ started' = started + 1
        /\ last' = [IdleCall EXCEPT !.pc = "create_task", !.n = started + 1,
                                    !.agent_name = agent_name,
                                    !.notification_url = notification_url,
                                    !.error = raised]
        /\ task_notification_urls' =
              IF notification_url # ""
              THEN Put(task_notification_urls, started + 1, notification_url)
              ELSE task_notification_urls
        /\ UNCHANGED <<directoryVars, task_callback, cacheVars, state, calls, finished, uuid,
                       thought_process_history, current_agent_info>>

\* the router's create_task: it awaits host_agent.send_task with
\* tool_context=None, whose exception it does not catch, so the registration
\* of lines 196-200 and the return of line 202 are not reached
create_task(agent_name, notification_url) ==
    LET raised == SendTaskOf(remote_agent_connections, NoToolContext, agent_name)
    IN  /\ started < MaxCalls
        /\ Quiet
        /\ raised # NoError
        /\ started' = started + 1
        /\ last' = [IdleCall EXCEPT !.pc = "create_task", !.n = started + 1,
                                    !.agent_name = agent_name,
                                    !.notification_url = notification_url,
                                    !.error = raised]
        /\ UNCHANGED <<directoryVars, task_callback, cacheVars, state, calls, finished, uuid,
                       dispatcherVars>>

\* requests to POST /tasks/{agent_name}, and subscribers that registered for
\* a task id by other means
NextRouter ==
    \/ \E a \in AgentNames \cup {UnknownAgent}, url \in NotificationUrls : create_task(a, url)
    \/ \E t \in 1..MaxTasks : register_task_notification(t)

SpecRouter == InitDispatcher /\ [][NextRouter]_vars

\* InMemoryCache.set
cache_set(key, value, ttl) ==
    /\ cache_data' = Put(cache_data, key, value)
    /\ cache_ttl' = ExpiryAfterSet(cache_ttl, key, ttl, clock)
    /\ cache_written' = [cache_written EXCEPT ![key] =
                            [present |-> TRUE, value |-> value, ttl |-> ttl, at |-> clock]]
    /\ cache_last' = [op |-> "set", key |-> key, default |-> "", ret |-> "None",
                      at |-> clock, was |-> cache_written[key]]
    /\ UNCHANGED <<directoryVars, task_callback, state, callVars, uuid, dispatcherVars, clock>>

\* InMemoryCache.get; del of a key that _cache_data does not hold raises
\* KeyError before _ttl is touched
cache_get(key, default) ==
    /\ IF Expired(cache_ttl, key, clock)
       THEN IF key \in DOMAIN cache_data
            THEN /\ cache_data' = Del(cache_data, key)
                 /\ cache_ttl' = Del(cache_ttl, key)
                 /\ cache_last' = [op |-> "get", key |-> key, default |-> default,
                                   ret |-> default, at |-> clock, was |-> cache_written[key]]
            ELSE /\ cache_last' = [op |-> "get", key |-> key, default |-> default,
                                   ret |-> "KeyError", at |-> clock,
                                   was |-> cache_written[key]]
                 /\ UNCHANGED <<cache_data, cache_ttl>>
       ELSE /\ cache_last' = [op |-> "get", key |-> key, default |-> default,
                              ret |-> IF key \in DOMAIN cache_data THEN cache_data[key]
                                      ELSE default,
                              at |-> clock, was |-> cache_written[key]]
            /\ UNCHANGED <<cache_data, cache_ttl>>
    /\ UNCHANGED <<directoryVars, task_callback, state, callVars, uuid, dispatcherVars,
                   clock, cache_written>>

\* InMemoryCache.delete
cache_delete(key) ==
    /\ IF key \in DOMAIN cache_data
       THEN /\ cache_data' = Del(cache_data, key)
            /\ cache_ttl' = Del(cache_ttl, key)
       ELSE UNCHANGED <<cache_data, cache_ttl>>
    /\ cache_written' = IF key \in DOMAIN cache_data
                        THEN [cache_written EXCEPT ![key] = NeverWritten]
                        ELSE cache_written
    /\ cache_last' = [op |-> "delete", key |-> key, default |-> "",
                      ret |-> IF key \in DOMAIN cache_data THEN "True" ELSE "False",
                      at |-> clock, was |-> cache_written[key]]
    /\ UNCHANGED <<directoryVars, task_callback, state, callVars, uuid, dispatcherVars, clock>>

\* InMemoryCache.clear
cache_clear ==
    /\ cache_data' = <<>>
    /\ cache_ttl' = <<>>
    /\ cache_written' = [k \in CacheKeys |-> NeverWritten]
    /\ cache_last' = [op |-> "clear", key |-> "", default |-> "", ret |-> "True",
                      at |-> clock, was |-> NeverWritten]
    /\ UNCHANGED <<directoryVars, task_callback, state, callVars, uuid, dispatcherVars, clock>>

\* time passes between two operations
Tick ==
    /\ clock < MaxTime
    /\ clock' = clock + 1
    /\ UNCHANGED <<directoryVars, task_callback, state, callVars, uuid, dispatcherVars,
                   cache_data, cache_ttl, cache_written, cache_last>>

NextCache ==
    \/ \E k \in CacheKeys, v \in CacheValues, ttl \in Ttls : cache_set(k, v, ttl)
    \/ \E k \in CacheKeys, d \in CacheDefaults : cache_get(k, d)
    \/ \E k \in CacheKeys : cache_delete(k)
    \/ cache_clear
    \/ Tick

SpecCache == InitDispatcher /\ [][NextCache]_vars

SpecDirectory == InitDirectory /\ [][NextDirectory]_vars

(***************************************************************************)
(* Properties                                                              *)
(***************************************************************************)
Frames == {calls[c] : c \in CallIds} \cup {last}

\* an invocation has just ended
Ended == last.pc \in {"returned", "raised"}

\* ... and client.send_task had handed it a result that has a status
GotResult == Ended /\ IsTaskLike(last.result) /\ last.result.has_status

ByConnection(e) == e.by = "connection"

\* the task_callback calls RemoteAgentConnections.send_task made for frame f
ConnectionCalls(f) == SelectSeq(f.cb, ByConnection)

\* C1: when send_task has received a result, the session's active flag is
\* true for SUBMITTED, WORKING and INPUT_REQUIRED and false for COMPLETED,
\* CANCELED, FAILED and UNKNOWN, whatever it was before.
C1_ActiveFlagFollowsResult ==
    GotResult =>
        /\ "session_active" \in state[last.session].keys
        /\ last.result.state \in {"SUBMITTED", "WORKING", "INPUT_REQUIRED"}
              => state[last.session].session_active = TRUE
        /\ last.result.state \in {"COMPLETED", "CANCELED", "FAILED", "UNKNOWN"}
              => state[last.session].session_active = FALSE

\* a call that found the flag cleared got WORKING back and set it again
C1_Witness ==
    /\ GotResult
    /\ "session_active" \in last.before.keys
    /\ last.before.session_active = FALSE
    /\ last.result.state = "WORKING"
    /\ state[last.session].session_active = TRUE

\* C2: a FAILED or CANCELED result makes send_task raise an error that names
\* the agent and the task id; no response list is returned and the session's
\* active flag is false when the error is raised.
C2_FailedOrCanceledRaises ==
    GotResult /\ last.result.state \in {"FAILED", "CANCELED"} =>
        /\ last.pc = "raised"
        /\ last.error = Error(IF last.result.state = "FAILED" THEN "TaskFailed"
                              ELSE "TaskCanceled",
                              last.agent_name, last.request.id)
        /\ last.response = <<>>
        /\ "session_active" \in state[last.session].keys
        /\ state[last.session].session_active = FALSE

\* the session was active and the failed result carried a text part
C2_Witness ==
    /\ GotResult
    /\ last.result.state = "FAILED"
    /\ last.result.message.present
    /\ last.result.message.parts # <<>>
    /\ last.before.session_active = TRUE
    /\ last.pc = "raised"

\* C3: an INPUT_REQUIRED result without message parts and without artifacts
\* makes send_task return the empty list, set both escalation flags and leave
\* the session active.
C3_InputRequiredEscalates ==
    /\ GotResult
    /\ last.result.state = "INPUT_REQUIRED"
    /\ last.result.message.parts = <<>>
    /\ last.result.artifacts = <<>>
    => /\ last.pc = "returned"
       /\ last.response = <<>>
       /\ last.skip_summarization
       /\ last.escalate
       /\ state[last.session].session_active = TRUE

\* C4: the send_task that follows an INPUT_REQUIRED result on the same session
\* sends its request under the task id of the previous request.
C4_TaskIdReusedAfterInputRequired ==
    \A f \in Frames :
        /\ f.remote_requests = 1
        /\ f.prev.has_result
        /\ f.prev.state = "INPUT_REQUIRED"
        => f.request.id = f.prev.task_id

\* C5: send_task with a name the directory does not hold raises the not-found
\* error; no remote request and no callback precede it and the session state
\* is as it was.
C5_UnknownAgentLeavesNoTrace ==
    Ended /\ ~DictHas(remote_agent_connections, last.agent_name) =>
        /\ last.pc = "raised"
        /\ last.error = Error("AgentNotFound", last.agent_name, NoValue)
        /\ last.remote_requests = 0
        /\ last.cb = <<>>
        /\ last.sent = <<>>
        /\ state[last.session] = last.before

\* the session had sent a task to another agent before
C5_Witness ==
    /\ Ended
    /\ last.error.exc = "AgentNotFound"
    /\ "agent" \in last.before.keys
    /\ last.before.agent # last.agent_name
    /\ state[last.session].agent = last.before.agent

\* the card registered last under name n
LastRegistered(n) ==
    regLog[CHOOSE i \in 1..Len(regLog) :
              /\ regLog[i].name = n
              /\ \A j \in (i + 1)..Len(regLog) : regLog[j].name # n]

RegisteredNames == {regLog[i].name : i \in 1..Len(regLog)}

NoDuplicateKeys(d) == \A i, j \in 1..Len(d) : d[i][1] = d[j][1] => i = j

\* C6: after any sequence of registrations the directory holds one entry per
\* registered name, a name resolves to the connection of the card registered
\* last under it, both maps have the same keys and list_remote_agents reports
\* every registered name once.
C6_DirectoryHoldsLastRegistration ==
    LET listed == list_remote_agents(remote_agent_connections, cards)
    IN  /\ NoDuplicateKeys(remote_agent_connections)
        /\ NoDuplicateKeys(cards)
        /\ DictKeys(remote_agent_connections) = RegisteredNames
        /\ DictKeys(cards) = DictKeys(remote_agent_connections)
        /\ \A n \in RegisteredNames :
              /\ DictGet(remote_agent_connections, n) = LastRegistered(n)
              /\ DictGet(cards, n) = LastRegistered(n)
        /\ Len(listed) = Cardinality(RegisteredNames)
        /\ \A n \in RegisteredNames :
              Cardinality({i \in 1..Len(listed) : listed[i].name = n}) = 1
        /\ \A i \in 1..Len(listed) :
              listed[i].description = LastRegistered(listed[i].name).description

\* a name was registered again with another card, next to a second name
C6_Witness ==
    /\ Cardinality(RegisteredNames) = 2
    /\ \E i, j \in 1..Len(regLog) :
          i < j /\ regLog[i].name = regLog[j].name /\ regLog[i] # regLog[j]
    /\ Len(regLog) = 3

\* what the remote agent sent to frame f's request, as the callback saw it:
\* the entries of the connection's callback log that follow the synthetic one
ReceivedCalls(f) ==
    LET conn == ConnectionCalls(f)
    IN  IF f.card.streaming /\ conn # <<>> THEN Tail(conn) ELSE conn

NotRotated == MetaKeys \ {"message_id", "last_message_id"}

\* C7: a non-streaming agent answers COMPLETED with one text part and a
\* subscriber is registered for the task id: the send_task call posts one
\* task_completion notification for that task id.
C7_OneCompletionNotification ==
    /\ Ended
    /\ last.pc = "returned"
    /\ task_callback # "none"
    /\ ~last.card.streaming
    /\ last.result.state = "COMPLETED"
    /\ Len(last.result.message.parts) = 1
    /\ last.result.message.parts[1].type = "text"
    /\ last.result.artifacts = <<>>
    /\ last.request.id \in DOMAIN task_notification_urls
    => Cardinality({i \in 1..Len(last.sent) :
                       /\ last.sent[i].type = "task_completion"
                       /\ last.sent[i].task_id = last.request.id
                       /\ last.sent[i].posted}) = 1

\* C8: for a non-streaming agent that answers, send_task issues one remote
\* request, calls the callback once (when there is one) with the response and
\* returns that response, whatever the callback returned.
C8_NonStreamingReturnsResponse ==
    Ended /\ last.remote_requests = 1 /\ ~last.card.streaming
          /\ last.error.exc # "RemoteError" =>
        /\ Len(last.received) = 1
        /\ last.result.kind = "Task"
        /\ last.result = ProcessResult(last.received[1], last.request,
                                       last.result.message.metadata["message_id"])
        /\ IF task_callback = "none" THEN ConnectionCalls(last) = <<>>
           ELSE /\ Len(ConnectionCalls(last)) = 1
                /\ ConnectionCalls(last)[1].arg = last.result
                /\ ConnectionCalls(last)[1].raw = last.received[1]

\* the callback returned something else than the response
C8_Witness ==
    /\ Ended
    /\ last.remote_requests = 1
    /\ ~last.card.streaming
    /\ Len(ConnectionCalls(last)) = 1
    /\ ConnectionCalls(last)[1].ret # last.result
    /\ last.pc = "returned"

\* C9 as stated: a key the received update's status-message metadata already
\* holds keeps its value, and the request's keys are added where the update
\* lacks them (message_id and last_message_id aside).
C9_MergeKeepsUpdateValues ==
    \A f \in Frames : \A i \in 1..Len(ReceivedCalls(f)) :
        LET e == ReceivedCalls(f)[i]
        IN  HasStatusMessage(e.raw) =>
                \A k \in NotRotated :
                    e.arg.message.metadata[k] =
                        IF MetaHas(e.raw.message.metadata, k)
                        THEN e.raw.message.metadata[k]
                        ELSE f.request.message.metadata[k]

\* C9 as amended: every key of the request message's metadata is written into
\* the update's status-message metadata with the request's value, also where
\* the update held the key; the keys only the update holds keep their value
\* (message_id and last_message_id aside).
C9_MergeRequestWins ==
    \A f \in Frames : \A i \in 1..Len(ReceivedCalls(f)) :
        LET e == ReceivedCalls(f)[i]
        IN  HasStatusMessage(e.raw) =>
                \A k \in NotRotated :
                    e.arg.message.metadata[k] =
                        IF MetaHas(f.request.message.metadata, k)
                        THEN f.request.message.metadata[k]
                        ELSE e.raw.message.metadata[k]

\* an update came with a user_id the request does not carry and with its own
\* conversation_id: the first is kept, the second is the request's now
C9_Witness ==
    \E f \in Frames : \E i \in 1..Len(ReceivedCalls(f)) :
        LET e == ReceivedCalls(f)[i]
        IN  /\ HasStatusMessage(e.raw)
            /\ e.raw.message.metadata["user_id"] = RemoteValue
            /\ ~MetaHas(f.request.message.metadata, "user_id")
            /\ e.arg.message.metadata["user_id"] = RemoteValue
            /\ e.raw.message.metadata["conversation_id"] = RemoteValue
            /\ e.arg.message.metadata["conversation_id"] = f.request.sessionId

\* the stream of the call that has just ended was U1 (not final), U2 (final),
\* and a callback was injected
TwoUpdateStream ==
    /\ Ended
    /\ last.card.streaming
    /\ task_callback # "none"
    /\ Len(last.received) = 2
    /\ ~last.received[1].final
    /\ last.received[2].final

\* C10 as stated: on the stream U1, U2 the callback is called twice, with U1
\* and then with U2, and send_task returns what the second call returned.
C10_StreamingTwoCallbacks ==
    TwoUpdateStream =>
        LET conn == ConnectionCalls(last)
        IN  /\ Len(conn) = 2
            /\ conn[1].raw = last.received[1]
            /\ conn[2].raw = last.received[2]
            /\ last.result = conn[2].ret

\* C10 as amended: on the stream U1, U2 the callback is called three times:
\* with the synthetic SUBMITTED task, then with U1, then with U2; send_task
\* returns what the call with U2 returned.
C10_StreamingSubmittedThenUpdates ==
    TwoUpdateStream =>
        LET conn == ConnectionCalls(last)
        IN  /\ Len(conn) = 3
            /\ conn[1].arg = SubmittedTask(last.request)
            /\ conn[2].raw = last.received[1]
            /\ conn[3].raw = last.received[2]
            /\ \A i \in {2, 3} :
                  conn[i].arg = ProcessResult(conn[i].raw, last.request,
                                              conn[i].arg.message.metadata["message_id"])
            /\ last.result = conn[3].ret

\* the two updates differ and the connection returned the second, as the
\* callback returned it
C10_Witness ==
    /\ TwoUpdateStream
    /\ task_callback = "sync"
    /\ last.received[1] # last.received[2]
    /\ HasStatusMessage(last.received[1])
    /\ last.result = ConnectionCalls(last)[3].arg
    /\ last.result.kind = "TaskStatusUpdateEvent"

\* a run of handle_task_updates has just returned
Handled == last.pc = "handled"

\* the step is one of a run of handle_task_updates: the run starts, or it
\* resumes after a post, and goes on to its next post or to its return
HandlerStep ==
    /\ task_notification_urls' = task_notification_urls
    /\ calls' # calls \/ last'.pc = "handled"

\* the slot of the run, when the run is suspended before or after the step
Moved == {c \in CallIds : calls'[c] # calls[c]}

Resumed == \E c \in Moved : calls[c].pc = "posting"

\* the stretches of the handler the step runs are StepFrom .. StepTo - 1
StepFrom == IF Resumed THEN calls[CHOOSE c \in Moved : TRUE].at ELSE 1

StepTo == IF last'.pc = "handled" THEN 5 ELSE calls'[CHOOSE c \in Moved : TRUE].at

\* the run after the step, and the notifications it had sent before
StepFrame == IF last'.pc = "handled" THEN last' ELSE calls'[CHOOSE c \in Moved : TRUE]

SentBefore == IF Resumed THEN calls[CHOOSE c \in Moved : TRUE].sent ELSE <<>>

\* the update is one that handle_task_updates takes for a completion
Completes(update) == update.has_status /\ update.state = "COMPLETED"

\* the step runs the clean-up of lines 150-154
Cleans == StepTo = 5 /\ Completes(StepFrame.cb[1].arg) /\ StepFrame.cb[1].arg.id # NoValue

\* the dispatcher state before the step, with a subscriber registered for
\* task_id that answers 2xx
Delivering(task_id, sent) ==
    [tph |-> thought_process_history, cai |-> current_agent_info,
     urls |-> Put(task_notification_urls, task_id, "http://subscriber"),
     sent |-> sent, outcomes |-> <<>>]

\* stretches p .. q - 1 of the handler, one after the other
RECURSIVE Stretches(_, _, _, _, _)
Stretches(p, q, D, update, card) ==
    IF p >= q \/ update.id = NoValue THEN D
    ELSE CHOOSE r \in {Stretches(p + 1, q, after, update, card) :
                          after \in {HandlerStretch(p, D, update, card)}} : TRUE

\* what a notification says: its type and its text
Shape(sent) == [i \in 1..Len(sent) |-> <<sent[i].type, sent[i].text>>]

\* C11: whatever becomes of a delivery (2xx, another status, an exception of
\* the post or of the token creation, no subscriber), send_task_update
\* returns a boolean, true for 2xx only, and leaves the dicts alone; without
\* a subscriber no HTTP request is made.  In every step of a run,
\* handle_task_updates attempts the same notifications and leaves
\* thought_process_history and current_agent_info as the same stretches do
\* when every delivery succeeds, the clean-up after COMPLETED included; the
\* run returns the update it was given.
C11_DeliveryOutcomeIsSwallowed ==
    [][HandlerStep =>
        \E f \in {StepFrame} :
        \E ideal \in {Stretches(StepFrom, StepTo, Delivering(f.cb[1].arg.id, SentBefore),
                                 f.cb[1].arg, f.cb[1].card)} :
        LET e == f.cb[1]
            sent == f.sent
        IN  /\ e.ret = e.arg
            /\ thought_process_history' = ideal.tph
            /\ current_agent_info' = ideal.cai
            /\ Shape(sent) = Shape(ideal.sent)
            /\ \A i \in 1..Len(sent) :
                  /\ sent[i].ret \in BOOLEAN
                  /\ sent[i].ret => sent[i].posted
                  /\ sent[i].task_id \notin DOMAIN task_notification_urls
                        => ~sent[i].posted /\ ~sent[i].ret
            /\ \A o \in DeliveryOutcomes :
                  LET registered == HandledTaskId \in DOMAIN task_notification_urls
                      D == send_task_update(DispatcherWith(<<>>, <<o>>), HandledTaskId,
                                            "agent_change", e.card.name, <<>>)
                  IN  /\ D.sent[1].ret = (registered /\ o = "2xx")
                      /\ D.sent[1].posted = (registered /\ o # "token_error")
                      /\ D.tph = thought_process_history
                      /\ D.cai = current_agent_info]_vars

\* a COMPLETED run that posted a notification to the task's subscriber and
\* then found no token for its completion notification: nothing was posted
\* for the completion, and the task's entries are cleaned up all the same
C11_Witness ==
    /\ Handled
    /\ HandledTaskId \in DOMAIN last.cai
    /\ HandledTaskId \notin DOMAIN thought_process_history
    /\ HandledTaskId \notin DOMAIN current_agent_info
    /\ \E i, j \in 1..Len(last.sent) :
          /\ i < j
          /\ last.sent[i].posted
          /\ last.sent[j].type = "task_completion"
          /\ ~last.sent[j].posted
          /\ ~last.sent[j].ret

\* the thought fragment of an update: the stripped group of the pattern
Fragment(update) == Strip(ThoughtGroup(MessageText(update.message.parts)))

HasFragment(update) ==
    HasStatusMessage(update) /\ HasThoughtMatch(MessageText(update.message.parts))

IsPrefix(a, b) == Len(a) <= Len(b) /\ SubSeq(b, 1, Len(a)) = a

\* the step runs lines 77-103
Thinks == StepFrom <= 2 /\ StepTo > 2

\* C12: a step of a run that does not clean up leaves the task's thought log
\* as it was, or appends to it; it leaves it as it was when it does not run
\* lines 77-103, when the update has no fragment and when the fragment is
\* already a substring of the log.
C12_ThoughtLogDeduplicates ==
    [][HandlerStep /\ StepFrame.cb[1].arg.id # NoValue =>
        LET e == StepFrame.cb[1]
            t == e.arg.id
        IN  /\ t \in DOMAIN thought_process_history
            /\ ~Cleans
            => /\ t \in DOMAIN thought_process_history'
               /\ IsPrefix(thought_process_history[t], thought_process_history'[t])
               /\ HasFragment(e.arg) /\ IsSubstring(Fragment(e.arg), thought_process_history[t])
                     => thought_process_history'[t] = thought_process_history[t]
               /\ ~(Thinks /\ HasFragment(e.arg))
                     => thought_process_history'[t] = thought_process_history[t]]_vars

\* the log held two fragments and the update brought one of them again: the
\* run, which went through lines 77-103 when it last had control, has sent
\* the log as it was
C12_Witness ==
    /\ Handled
    /\ last.at <= 2
    /\ HandledTaskId \in DOMAIN last.tph
    /\ HandledTaskId \in DOMAIN thought_process_history
    /\ HasFragment(last.cb[1].arg)
    /\ Fragment(last.cb[1].arg) # <<>>
    /\ IsSubstring(Fragment(last.cb[1].arg), last.tph[HandledTaskId])
    /\ Fragment(last.cb[1].arg) # last.tph[HandledTaskId]
    /\ thought_process_history[HandledTaskId] = last.tph[HandledTaskId]
    /\ \E i \in 1..Len(last.sent) :
          /\ last.sent[i].type = "thought_process"
          /\ last.sent[i].text = last.tph[HandledTaskId]

\* the send_task invocations, in flight or just ended
Invocations == {f \in Frames : f.pc \in {"awaiting", "streaming", "returned", "raised"}}

\* C13: send_task for a known agent on a session state without session_id
\* does not fail for the lack of it: the session gets a session id, is marked
\* active and the request is sent under a task id.
C13_SendTaskGeneratesSessionId ==
    \A f \in Invocations :
        /\ DictHas(remote_agent_connections, f.agent_name)
        /\ "session_id" \notin f.before.keys
        => /\ f.error.exc # "KeyError"
           /\ f.remote_requests = 1
           /\ f.request.id # NoValue
           /\ f.request.sessionId # NoValue
           /\ "session_id" \in state[f.session].keys

KnownPartTypes == {"text", "data", "file"}

\* the call that has just ended had received a result that send_task converts
Converted == GotResult /\ last.result.state \notin {"FAILED", "CANCELED"}

\* C14: a part of the result's status message that is neither text nor data
\* nor file becomes the string "Unknown type: <kind>" at its position of the
\* returned list, and send_task returns normally.
C14_UnknownPartYieldsDiagnostic ==
    /\ Converted
    /\ \E i \in 1..Len(last.result.message.parts) :
          last.result.message.parts[i].type \notin KnownPartTypes
    => /\ last.pc = "returned"
       /\ last.error = NoError
       /\ Len(last.response) >= Len(last.result.message.parts)
       /\ \A i \in 1..Len(last.result.message.parts) :
             last.result.message.parts[i].type \notin KnownPartTypes
                => last.response[i] =
                       StrItem(<<"Unknown type: ", last.result.message.parts[i].type>>)

\* the parts of a result in the order send_task converts them: those of the
\* status message, then those of each artifact
RECURSIVE Concat(_)
Concat(ss) == IF ss = <<>> THEN <<>> ELSE Head(ss) \o Concat(Tail(ss))

FlatParts(result) ==
    (IF result.message.present THEN result.message.parts ELSE <<>>)
    \o Concat(result.artifacts)

IsFilePart(part) == part.type = "file"

\* what the artifact store holds after the file parts fs, saved in order
StoredFiles(fs) == [i \in 1..Len(fs) |-> [name |-> fs[i].file, data |-> b64decode(fs[i].bytes)]]

\* C15: send_task saves the decoded binary of every file part it converts
\* once, under the file's name, and sets both escalation flags; the list it
\* returns holds DataPart {"artifact-file-id": name} at the part's position
\* and not the binary.
C15_FilePartSavedAndReferenced ==
    /\ Converted
    /\ last.pc = "returned"
    => LET parts == FlatParts(last.result)
       IN  /\ last.saved = StoredFiles(SelectSeq(parts, IsFilePart))
           /\ \A i \in 1..Len(parts) :
                 IsFilePart(parts[i]) =>
                    /\ last.skip_summarization
                    /\ last.escalate
                    /\ i <= Len(last.response)
                    /\ last.response[i] = DataPartItem(parts[i].file)
           /\ \A i \in 1..Len(last.response) : last.response[i].blob = ""

\* a COMPLETED result with a file in its message and another in an artifact
C15_Witness ==
    /\ Converted
    /\ last.pc = "returned"
    /\ last.result.state = "COMPLETED"
    /\ Len(last.saved) = 2
    /\ last.saved[1] = [name |-> "chart.png", data |-> "chart"]
    /\ last.saved[2].name = "table.csv"
    /\ last.response[2] = DataPartItem("chart.png")
    /\ last.response[4] = DataPartItem("table.csv")
    /\ last.escalate

\* the invocations whose request went to a streaming agent
Streamed == {f \in Invocations : f.remote_requests = 1 /\ f.card.streaming}

\* C16: on a stream the callback is called first with the synthetic
\* SUBMITTED task that carries the request message and then once with every
\* update read, in the order read; the update marked final is the last one
\* read, and an invocation that is still reading has read no final update.
C16_StreamForwardedInOrderUntilFinal ==
    \A f \in Streamed :
        /\ \A i \in 1..(Len(f.received) - 1) : ~f.received[i].final
        /\ f.pc = "streaming" => \A i \in 1..Len(f.received) : ~f.received[i].final
        /\ task_callback # "none" =>
              LET conn == ConnectionCalls(f)
              IN  /\ Len(conn) = 1 + Len(f.received)
                  /\ conn[1].arg = SubmittedTask(f.request)
                  /\ conn[1].arg.state = "SUBMITTED"
                  /\ conn[1].arg.message = f.request.message
                  /\ \A i \in 1..Len(f.received) :
                        /\ conn[i + 1].raw = f.received[i]
                        /\ conn[i + 1].arg.kind = f.received[i].kind
                        /\ conn[i + 1].arg.state = f.received[i].state
                        /\ conn[i + 1].arg.artifacts = f.received[i].artifacts

\* an artifact update and then the final status update were forwarded
C16_Witness ==
    /\ Ended
    /\ last \in Streamed
    /\ task_callback # "none"
    /\ Len(last.received) = 2
    /\ last.received[1].kind = "TaskArtifactUpdateEvent"
    /\ last.received[2].final
    /\ Len(ConnectionCalls(last)) = 3
    /\ ConnectionCalls(last)[2].arg.kind = "TaskArtifactUpdateEvent"

\* a connection has just processed a result that has a status message
Processed == last.pc = "processed" /\ HasStatusMessage(last.received[1])

\* C17 as stated: the message_id M an update's status message arrives with is
\* its last_message_id after processing, next to a fresh message_id; an update
\* without message_id to a request without one gets a fresh message_id and no
\* last_message_id.
C17_LastMessageIdIsTheUpdatesOwn ==
    Processed =>
        LET M == last.received[1].message.metadata["message_id"]
            R == last.request.message.metadata["message_id"]
            after == last.result.message.metadata
        IN  /\ M # NoValue => /\ after["last_message_id"] = M
                              /\ after["message_id"] \notin {NoValue, M}
            /\ M = NoValue /\ R = NoValue =>
                  /\ after["message_id"] # NoValue
                  /\ after["last_message_id"] = NoValue

\* C17 as amended: last_message_id is the message_id the metadata holds after
\* the request message's metadata was merged into it, that is the request's
\* message_id when the request has one and the update's own M only when it
\* has none; message_id is freshly generated in every case; when neither has
\* a message_id, last_message_id is left as the merge left it.
C17_LastMessageIdFollowsMerge ==
    Processed =>
        LET M == last.received[1].message.metadata["message_id"]
            R == last.request.message.metadata["message_id"]
            merged == merge_metadata(last.received[1].message.metadata,
                                     last.request.message.metadata)
            after == last.result.message.metadata
        IN  /\ after["message_id"] \notin {NoValue, M, R}
            /\ after["message_id"] = uuid
            /\ R # NoValue => after["last_message_id"] = R
            /\ R = NoValue /\ M # NoValue => after["last_message_id"] = M
            /\ R = NoValue /\ M = NoValue =>
                  after["last_message_id"] = merged["last_message_id"]
            /\ \A k \in NotRotated : after[k] = merged[k]

\* the update came with its own message_id and the request with another: the
\* request's is the last_message_id
C17_Witness ==
    /\ Processed
    /\ last.received[1].message.metadata["message_id"] = RemoteMessageId
    /\ last.request.message.metadata["message_id"] = PresetMessageId
    /\ last.result.message.metadata["last_message_id"] = PresetMessageId
    /\ last.result.message.metadata["message_id"] = uuid
    /\ uuid > 1

\* a request has been sent for the invocation
Requested(f) == f.remote_requests = 1

\* C18: the send_task that follows a result in a terminal state on the same
\* session sends its request under a newly generated task id, not under the
\* finished one.
C18_NewTaskIdAfterTerminal ==
    \A f \in Invocations :
        /\ Requested(f)
        /\ f.prev.has_result
        /\ f.prev.state \in Terminal
        => /\ f.request.id # f.prev.task_id
           /\ f.request.id > NoValue

\* C19: a session id, once in the session state, is never changed or removed
\* by before_model_callback or send_task, and every request of the session
\* carries it as sessionId and as conversation_id of the request and of its
\* message.
C19_SessionIdIsStable ==
    [][\A s \in Sessions :
          /\ "session_id" \in state[s].keys =>
                /\ "session_id" \in state'[s].keys
                /\ state'[s].session_id = state[s].session_id
          /\ \A c \in CallIds :
                calls'[c].session = s /\ Requested(calls'[c]) =>
                   /\ calls'[c].request.sessionId = state'[s].session_id
                   /\ calls'[c].request.sessionId # NoValue
                   /\ calls'[c].request.metadata["conversation_id"] = state'[s].session_id
                   /\ calls'[c].request.message.metadata["conversation_id"] =
                          state'[s].session_id
                   /\ calls'[c].request.sessionId = calls'[c].before.session_id]_vars

\* the session's first task failed, the callback ran again and the second
\* request carries the session id of the first
C19_Witness ==
    \E c \in CallIds :
        /\ Requested(calls[c])
        /\ calls[c].n = 2
        /\ calls[c].prev.has_result
        /\ calls[c].prev.state = "FAILED"
        /\ calls[c].before.session_active
        /\ calls[c].request.sessionId = state[calls[c].session].session_id
        /\ calls[c].request.sessionId = 1

\* the item send_task returns for a part of a known type
ItemOf(part) ==
    IF part.type = "text" THEN StrItem(part.text)
    ELSE IF part.type = "data" THEN DictItem(part.data)
    ELSE DataPartItem(part.file)

\* C20: the list a successful send_task returns has one item per part of the
\* result, the status message's parts first and then every artifact's parts,
\* in order; without status message and artifacts it is empty.
C20_ResponseListsEveryPart ==
    Converted /\ last.pc = "returned" =>
        LET parts == FlatParts(last.result)
        IN  /\ Len(last.response) = Len(parts)
            /\ \A i \in 1..Len(parts) : last.response[i] = ItemOf(parts[i])
            /\ ~last.result.message.present /\ last.result.artifacts = <<>>
                  => last.response = <<>>

\* two message parts and the three parts of two artifacts
C20_Witness ==
    /\ Converted
    /\ last.pc = "returned"
    /\ Len(last.result.message.parts) = 2
    /\ Len(last.result.artifacts) = 2
    /\ Len(last.response) = 5
    /\ last.response[1] = StrItem(PlanText)
    /\ last.response[3] = DictItem(7)
    /\ last.response[5] = StrItem(BuildText)

ByHost(e) == e.by = "host"

\* the task_callback calls HostAgent.send_task itself made for frame f
HostCalls(f) == SelectSeq(f.cb, ByHost)

\* C21: once the remote call has returned, send_task hands one synthesized
\* status update to the callback when it returns a non-empty list, and none
\* when the list is empty or the call raised (FAILED and CANCELED included);
\* the update carries the result's task id and state and the joined text of
\* the list.
C21_SynthesizedUpdateIffResponse ==
    Ended /\ task_callback # "none" =>
        IF last.pc = "returned" /\ last.response # <<>>
        THEN /\ Len(HostCalls(last)) = 1
             /\ HostCalls(last)[1].arg.kind = "TaskStatusUpdateEvent"
             /\ HostCalls(last)[1].arg.id = last.result.id
             /\ HostCalls(last)[1].arg.state = last.result.state
             /\ HostCalls(last)[1].arg = SynthesizedUpdate(last.result, last.response)
             /\ HostCalls(last)[1].card = last.card
             /\ last.cb[Len(last.cb)] = HostCalls(last)[1]
        ELSE HostCalls(last) = <<>>

\* an INPUT_REQUIRED result with a text part: the synthesized update says
\* INPUT_REQUIRED
C21_Witness ==
    /\ Ended
    /\ task_callback # "none"
    /\ last.pc = "returned"
    /\ last.result.state = "INPUT_REQUIRED"
    /\ last.response = <<StrItem(PlanText)>>
    /\ Len(HostCalls(last)) = 1
    /\ HostCalls(last)[1].arg.state = "INPUT_REQUIRED"
    /\ HostCalls(last)[1].arg.message.parts = <<TextPart(PlanText)>>

IsAgentChange(n) == n.type = "agent_change"

\* C22: a run of handle_task_updates emits agent_change, once, before any
\* other notification and in its first step, exactly when current_agent_info
\* has no entry for the update's task id or the entry's name is not the
\* card's name, and then records the card; an update of the recorded agent
\* emits none and leaves the entry as it is.
C22_AgentChangeOnlyOnChange ==
    [][HandlerStep /\ StepFrame.cb[1].arg.id # NoValue =>
        LET e == StepFrame.cb[1]
            t == e.arg.id
            changed == /\ StepFrom = 1
                       /\ \/ t \notin DOMAIN current_agent_info
                          \/ current_agent_info[t].name # e.card.name
            emitted == SelectSeq(StepFrame.sent, IsAgentChange)
        IN  /\ Len(emitted) = Len(SelectSeq(SentBefore, IsAgentChange))
                                 + (IF changed THEN 1 ELSE 0)
            /\ changed => /\ StepFrame.sent[1].type = "agent_change"
                          /\ StepFrame.sent[1].task_id = t
                          /\ StepFrame.sent[1].agent = e.card.name
            /\ StepFrom = 1 /\ ~Cleans =>
                  /\ t \in DOMAIN current_agent_info'
                  /\ current_agent_info'[t].name = e.card.name
                  /\ ~changed => current_agent_info'[t] = current_agent_info[t]]_vars

\* an update of the agent already recorded for the task, handled in one
\* step: a notification, and no agent_change
C22_Witness ==
    /\ Handled
    /\ last.at = 1
    /\ last.cb[1].arg.id = HandledTaskId
    /\ HandledTaskId \in DOMAIN last.cai
    /\ last.cai[HandledTaskId].name = last.cb[1].card.name
    /\ last.sent # <<>>
    /\ SelectSeq(last.sent, IsAgentChange) = <<>>
    /\ current_agent_info[HandledTaskId] = last.cai[HandledTaskId]

\* C23: when the run of an update for a task id that is not COMPLETED has
\* returned, the task has its agent entry, and its thought log if it had one
\* or the update brought a fragment; when the run of a COMPLETED update has
\* returned it has neither.
C23_RecordLivesUntilCompleted ==
    [][HandlerStep /\ StepTo = 5 /\ StepFrame.cb[1].arg.id # NoValue =>
        LET e == StepFrame.cb[1]
            t == e.arg.id
        IN  IF Completes(e.arg)
            THEN /\ t \notin DOMAIN current_agent_info'
                 /\ t \notin DOMAIN thought_process_history'
            ELSE /\ t \in DOMAIN current_agent_info'
                 /\ t \in DOMAIN thought_process_history =>
                       t \in DOMAIN thought_process_history'
                 /\ HasFragment(e.arg) => t \in DOMAIN thought_process_history']_vars

\* C24: the run of handle_task_updates that starts after the run of a
\* COMPLETED update of the same task id has returned, with no registration in
\* between, delivers no notification.
C24_NoDeliveryAfterCompletion ==
    [][/\ Handled
       /\ Completes(last.cb[1].arg)
       /\ last.cb[1].arg.id # NoValue
       /\ HandlerStep
       /\ StepFrom = 1
       /\ StepFrame.cb[1].arg.id = last.cb[1].arg.id
       => \A i \in 1..Len(StepFrame.sent) : ~StepFrame.sent[i].posted]_vars

\* the step in which call c reads one more update and stays in flight
Reads(c) ==
    /\ calls[c].pc = "streaming"
    /\ calls'[c].n = calls[c].n
    /\ Len(calls'[c].received) = Len(calls[c].received) + 1

\* C25: an update without task id that a stream delivers is handed to the
\* callback, which returns it as it is; no notification is sent for it,
\* thought_process_history, current_agent_info and task_notification_urls
\* stay as they are, and when the update is not final the call stays in its
\* loop, ready for the next update.
C25_UpdateWithoutIdPassesThrough ==
    [][\A c \in CallIds :
          /\ Reads(c)
          /\ calls'[c].received[Len(calls'[c].received)].id = NoValue
          /\ task_callback = "sync"
          => LET f == calls'[c]
                 e == f.cb[Len(f.cb)]
             IN  /\ f.pc = "streaming"
                 /\ e.raw = f.received[Len(f.received)]
                 /\ e.arg.id = NoValue
                 /\ e.ret = e.arg
                 /\ f.task = e.arg
                 /\ f.sent = calls[c].sent
                 /\ UNCHANGED dispatcherVars]_vars

\* the stream went on after the update without id: the next update was read
\* and handed to the callback
C25_Witness ==
    \E f \in Frames :
        /\ f.card.streaming
        /\ task_callback = "sync"
        /\ Len(f.received) = 2
        /\ f.received[1].id = NoValue
        /\ f.received[2].id # NoValue
        /\ Len(ConnectionCalls(f)) = 3
        /\ ConnectionCalls(f)[2].ret = ConnectionCalls(f)[2].arg
        /\ ConnectionCalls(f)[3].raw = f.received[2]
        /\ \A i \in 1..Len(f.sent) : f.sent[i].task_id # NoValue

\* the session state keys C26 is about
SameEntry(a, b, k) == (k \in a.keys) = (k \in b.keys)

\* C26: when the remote call fails, send_task raises that error, has sent one
\* request and no second one, returns no list, and the session's active flag,
\* task id and session id are what they were when send_task was called.
C26_RemoteErrorPropagates ==
    Ended /\ last.error.exc = "RemoteError" =>
        LET st == state[last.session]
        IN  /\ last.pc = "raised"
            /\ last.remote_requests = 1
            /\ last.response = <<>>
            /\ HostCalls(last) = <<>>
            /\ SameEntry(st, last.before, "session_active")
            /\ st.session_active = last.before.session_active
            /\ SameEntry(st, last.before, "task_id")
            /\ st.task_id = last.before.task_id
            /\ SameEntry(st, last.before, "session_id")
            /\ st.session_id = last.before.session_id

\* the stream of an active session broke after its first update
C26_Witness ==
    /\ Ended
    /\ last.error.exc = "RemoteError"
    /\ last.card.streaming
    /\ Len(last.received) = 1
    /\ last.before.session_active
    /\ state[last.session].session_active
    /\ state[last.session].agent = last.agent_name

InFlight(f) == f.pc \in {"awaiting", "streaming"}

\* C27: no two remote calls are in flight for one pair of session id and
\* task id, also when a second send_task of a session starts before the
\* first has returned.
C27_OneCallPerSessionAndTask ==
    \A c, d \in CallIds :
        /\ c # d
        /\ InFlight(calls[c])
        /\ InFlight(calls[d])
        => <<calls[c].request.sessionId, calls[c].request.id>> #
           <<calls[d].request.sessionId, calls[d].request.id>>

\* the frames of the calls that run in this step: a call that starts, a call
\* that is resumed at its await, or a call that raised before its await
ActingFrames ==
    {calls[c] : c \in {x \in CallIds : calls'[x] # calls[x] /\ calls[x].pc # "idle"}}
    \cup {calls'[c] : c \in {x \in CallIds : calls'[x] # calls[x] /\ calls[x].pc = "idle"}}
    \cup (IF started' # started /\ calls' = calls THEN {last'} ELSE {})

TrackedTaskIds ==
    DOMAIN thought_process_history \cup DOMAIN thought_process_history'
    \cup DOMAIN current_agent_info \cup DOMAIN current_agent_info'
    \cup DOMAIN task_notification_urls \cup DOMAIN task_notification_urls'

SameRecord(d, e, k) == (k \in DOMAIN d) = (k \in DOMAIN e) /\ (k \in DOMAIN d => e[k] = d[k])

\* C28: a step of a send_task call, with the updates it hands to
\* handle_task_updates for its task id, leaves the thought log, the agent
\* entry and the subscriber entry of every other task id as they were, and
\* leaves the state of every other session as it was.
C28_OtherTasksAndSessionsUntouched ==
    [][\A f \in ActingFrames :
          /\ \A s \in Sessions \ {f.session} : state'[s] = state[s]
          /\ \A B \in TrackedTaskIds \ {f.request.id} :
                /\ SameRecord(thought_process_history, thought_process_history', B)
                /\ SameRecord(current_agent_info, current_agent_info', B)
                /\ SameRecord(task_notification_urls, task_notification_urls', B)]_vars

\* a call of one session has completed and its task's entries are deleted,
\* while the call of the other session is in flight and its task still has
\* its thought log and its agent entry
C28_Witness ==
    /\ last.pc = "returned"
    /\ last.result.state = "COMPLETED"
    /\ \E i \in 1..Len(last.sent) : last.sent[i].type = "agent_change"
    /\ last.request.id \notin DOMAIN current_agent_info
    /\ \E c \in CallIds :
          /\ InFlight(calls[c])
          /\ calls[c].session # last.session
          /\ calls[c].request.id # last.request.id
          /\ calls[c].request.id \in DOMAIN current_agent_info
          /\ calls[c].request.id \in DOMAIN thought_process_history
          /\ "agent" \in state[calls[c].session].keys
          /\ state[calls[c].session].agent # state[last.session].agent

\* C29: a create_task request that carries a notification_url registers
\* nothing while its send_task has not returned, and a notification sent on
\* its behalf is posted only for a task id that had a subscriber before the
\* request.
C29_UrlRegisteredOnlyAfterSendTaskReturns ==
    [][/\ started' # started
       /\ last'.pc = "create_task"
       /\ last'.notification_url # ""
       => /\ last'.error # NoError => task_notification_urls' = task_notification_urls
          /\ \A i \in 1..Len(last'.sent) :
                last'.sent[i].posted =>
                   last'.sent[i].task_id \in DOMAIN task_notification_urls]_vars

\* a request for a registered agent with a notification_url, while another
\* task has a subscriber: send_task has raised, the URL is registered for no
\* task and nothing was sent
C29_Witness ==
    /\ last.pc = "create_task"
    /\ DictHas(remote_agent_connections, last.agent_name)
    /\ last.notification_url = "http://dashboard"
    /\ last.error.exc = "AttributeError"
    /\ last.sent = <<>>
    /\ DOMAIN task_notification_urls # {}
    /\ \A t \in DOMAIN task_notification_urls :
          task_notification_urls[t] # last.notification_url

\* the last operation was a get of a key whose last set gave it a ttl that
\* had run out when get was called
GotExpired ==
    /\ cache_last.op = "get"
    /\ cache_last.was.present
    /\ cache_last.was.ttl.given
    /\ cache_last.at > cache_last.was.at + cache_last.was.ttl.secs

\* C30: every key of _ttl is a key of _cache_data; a get of a key whose last
\* set gave it a ttl returns the default once the clock is past the time of
\* that set plus the ttl, and the key is then in neither dict; a set without
\* ttl leaves the key without expiry, and a later get returns its value
\* however much time has passed.
C30_CacheExpiry ==
    /\ DOMAIN cache_ttl \subseteq DOMAIN cache_data
    /\ GotExpired =>
          /\ cache_last.ret = cache_last.default
          /\ cache_last.key \notin DOMAIN cache_data
          /\ cache_last.key \notin DOMAIN cache_ttl
    /\ cache_last.op = "set" /\ ~cache_written[cache_last.key].ttl.given =>
          cache_last.key \notin DOMAIN cache_ttl
    /\ cache_last.op = "get" /\ cache_last.was.present /\ ~cache_last.was.ttl.given =>
          cache_last.ret = cache_last.was.value

\* a get has found its key expired and returned the default, while the
\* other key, set without ttl, is still stored after every ttl has run out
C30_Witness ==
    /\ GotExpired
    /\ cache_last.ret = cache_last.default
    /\ cache_last.ret # cache_last.was.value
    /\ \E k \in CacheKeys \ {cache_last.key} :
          /\ cache_written[k].present
          /\ ~cache_written[k].ttl.given
          /\ clock > cache_written[k].at + MaxTtl
          /\ k \in DOMAIN cache_data
          /\ k \notin DOMAIN cache_ttl

====
